---- MODULE Spec2Model ----
(***************************************************************************)
(* Verification model of the attune conversational engine: the interaction *)
(* pattern tracker, the working memory, the value hierarchy, the event-bus *)
(* wiring of the understanding framework, the interaction logger and the   *)
(* entity tracker.  Each component has its own variables and its own       *)
(* specification; a specification leaves the other components' variables  *)
(* unchanged.                                                              *)
(*                                                                         *)
(* Conventions: confidences, saliences and importances are fixed-point     *)
(* integers (tenths, hundredths or thousandths, as stated at each use);    *)
(* string keys built by concatenation ("a→b", "type:value") are tuples of  *)
(* their parts.                                                            *)
(***************************************************************************)
EXTENDS Integers, Sequences, FiniteSets, TLC

VARIABLES
    interactionHistory,   \* InteractionPatternTracker.interactionHistory
    patterns,             \* InteractionPatternTracker.patterns
    eventsTracked,        \* the number of trackEvent calls of this behaviour
    relevantQuery,        \* the last getRelevantPatterns call and what it returned
    customPriorities,     \* ValueHierarchy.customPriorities
    lastConflict,         \* arguments and result of the last resolveConflict call
    now,                  \* Date.now() of the working memory, in units of 10 minutes
    recentMessages,       \* WorkingMemory.context.recentMessages (message ids)
    entityMap,            \* WorkingMemory.context.entityMap, in insertion order
    conversationState,    \* WorkingMemory.context.conversationState
    currentFocus,         \* WorkingMemory.context.currentFocus
    wmLastOp,             \* the last WorkingMemory operation and its argument
    subscribers,          \* the observers of the eventBus subject, in subscription order
    engines,              \* the conversations whose engine is initialised
    frameworks,           \* per conversation, its EnhancedUnderstandingFramework's state
    stack,                \* the JavaScript call stack of the running task
    timers,               \* the pending setTimeout callbacks, in creation order
    database,             \* per conversation, the messages its engine stored
    dispatched,           \* the number of user messages dispatched so far
    taskOrigin,           \* the conversation the running task was started for
    enhancements,         \* ContextualValueApplicability.enhancements, per value id
    parameters,           \* AttentionManager.parameters
    turn,                 \* the capacity call in progress for the current message
    insightHistory,       \* ReflectionEngine.insightHistory
    reflectPc,            \* where ReflectionEngine.reflect is suspended
    logs,                 \* InteractionLogger.logs
    storage,              \* the interaction logs the storage holds
    loadPc,               \* whether the constructor's loadRecentLogs has settled
    query,                \* the queryLogs call suspended at its storage query
    nextLogId,            \* the id of the next log entry
    lastLog,              \* the last InteractionLogger operation and how it ended
    clock,                \* Date.now() of the entity tracker, in units of 2 minutes
    trackedEntities,      \* EntityTracker.entities, per entity id
    entityLifespan,       \* EntityTracker.entityLifespan, in tenths
    lastCleanupTimestamp, \* EntityTracker.lastCleanupTimestamp
    mentioned,            \* the entity ids the last EntityTracker operation updated
    intentionNow,         \* Date.now() of the intention recognizer: <<5-minute ticks, ms>>
    activeIntentions,     \* IntentionRecognizer.activeIntentions, in insertion order
    intentionHistory,     \* IntentionRecognizer.intentionHistory (intention ids)
    completionTimers,     \* the pending setTimeout callbacks of completeIntention
    recognitions,         \* the number of user messages recognised so far
    processedTexts,       \* the texts passed to processUserMessage, in order
    lastTensions,         \* arguments and result of the last identifyValueTensions call
    lastPriority,         \* arguments and result of the last getPriorityValue call
    lastRecognition,      \* argument and result of the last recognizeEntities call
    lastDetection,        \* argument and results of the last detectIntentions call
    lastRelevant,         \* argument and result of the last getRelevantValues call
    values,               \* ValueGroundingCapacity.values: the value objects, in order
    lastReflection,       \* the log window and the result of the last reflect() call
    triggerNow,           \* Date.now() as the reflection engine reads it
    lastReflectionTime,   \* ReflectionEngine.lastReflectionTime
    pendingReflections,   \* reflect() calls whose queryLogs has not completed
    triggerCalls,         \* the triggerReflectionIfDue calls made so far
    syncTabs,             \* the tabs in which initCrossBrowserSync has run
    tabEvents,            \* per tab, the events its local event bus has emitted
    inbox                 \* per tab, the channel messages not yet handled

trackerVars == <<interactionHistory, patterns, eventsTracked, relevantQuery>>

valueVars == <<customPriorities, lastConflict>>

wmVars == <<now, recentMessages, entityMap, conversationState, currentFocus, wmLastOp>>

busVars == <<subscribers, engines, frameworks, stack, timers, database, dispatched,
             taskOrigin>>

vars == <<interactionHistory, patterns, eventsTracked, relevantQuery,
          customPriorities, lastConflict,
          now, recentMessages, entityMap, conversationState, currentFocus, wmLastOp,
          subscribers, engines, frameworks, stack, timers, database, dispatched,
          taskOrigin, enhancements, parameters, turn, insightHistory, reflectPc,
          logs, storage, loadPc, query, nextLogId, lastLog,
          clock, trackedEntities, entityLifespan, lastCleanupTimestamp, mentioned,
          intentionNow, activeIntentions, intentionHistory, completionTimers,
          recognitions, processedTexts, lastTensions, lastPriority,
          lastRecognition, lastDetection, lastRelevant, values, lastReflection,
          triggerNow, lastReflectionTime, pendingReflections, triggerCalls,
          syncTabs, tabEvents, inbox>>

pipelineVars == <<processedTexts>>

tensionVars == <<lastTensions, lastPriority>>

callVars == <<lastRecognition, lastDetection, lastRelevant, lastReflection>>

coreVars == <<values>>

triggerVars == <<triggerNow, lastReflectionTime, pendingReflections, triggerCalls>>

syncVars == <<syncTabs, tabEvents, inbox>>

intentionVars == <<intentionNow, activeIntentions, intentionHistory, completionTimers,
                   recognitions>>

entityTrackerVars == <<clock, trackedEntities, entityLifespan, lastCleanupTimestamp,
                       mentioned>>

loggerVars == <<logs, storage, loadPc, query, nextLogId, lastLog>>

evolveVars == <<enhancements, parameters, turn, insightHistory, reflectPc>>

exceptTracker == <<valueVars, wmVars, busVars, evolveVars, loggerVars, entityTrackerVars,
                   intentionVars, pipelineVars, tensionVars, callVars, coreVars, triggerVars, syncVars>>

exceptValue == <<trackerVars, wmVars, busVars, evolveVars, loggerVars, entityTrackerVars,
                 intentionVars, pipelineVars, tensionVars, callVars, coreVars, triggerVars, syncVars>>

exceptWM == <<trackerVars, valueVars, busVars, evolveVars, loggerVars, entityTrackerVars,
              intentionVars, pipelineVars, tensionVars, callVars, coreVars, triggerVars, syncVars>>

exceptBus == <<trackerVars, valueVars, wmVars, evolveVars, loggerVars, entityTrackerVars,
               intentionVars, pipelineVars, tensionVars, callVars, coreVars, triggerVars, syncVars>>

exceptEvolve == <<trackerVars, lastConflict, wmVars, busVars, loggerVars,
                 entityTrackerVars, intentionVars, pipelineVars, tensionVars, callVars, coreVars, triggerVars, syncVars>>

exceptTension == <<trackerVars, valueVars, wmVars, busVars, evolveVars, loggerVars,
                   entityTrackerVars, intentionVars, pipelineVars, callVars, coreVars, triggerVars, syncVars>>

exceptEntityTracker == <<trackerVars, valueVars, wmVars, busVars, evolveVars, loggerVars,
                         intentionVars, pipelineVars, tensionVars, callVars, coreVars, triggerVars, syncVars>>

exceptLogger == <<trackerVars, valueVars, wmVars, busVars, evolveVars, entityTrackerVars,
                  intentionVars, pipelineVars, tensionVars, callVars, coreVars, triggerVars, syncVars>>

exceptIntention == <<trackerVars, valueVars, wmVars, busVars, evolveVars, loggerVars,
                     entityTrackerVars, pipelineVars, tensionVars, callVars, coreVars, triggerVars, syncVars>>

exceptPipeline == <<valueVars, busVars, evolveVars, loggerVars, entityTrackerVars,
                    intentionVars, tensionVars, callVars, coreVars, triggerVars, syncVars>>

exceptCall == <<trackerVars, valueVars, wmVars, busVars, evolveVars, loggerVars,
                entityTrackerVars, intentionVars, pipelineVars, tensionVars, coreVars, triggerVars, syncVars>>

exceptTrigger == <<trackerVars, valueVars, wmVars, busVars, evolveVars, loggerVars,
                   entityTrackerVars, intentionVars, pipelineVars, tensionVars, callVars,
                   coreVars, syncVars>>

exceptSync == <<trackerVars, valueVars, wmVars, busVars, evolveVars, loggerVars,
                entityTrackerVars, intentionVars, pipelineVars, tensionVars, callVars,
                coreVars, triggerVars>>

Min(a, b) == IF a <= b THEN a ELSE b

Max(a, b) == IF a >= b THEN a ELSE b

\* The value of a call-observing variable before the first call.
NoCall == [called |-> FALSE]

\* The sequences over S of length at most n.
SeqsUpTo(S, n) == UNION {[1..k -> S] : k \in 0..n}

(***************************************************************************)
(* ValueHierarchy                                                          *)
(***************************************************************************)

\* Bound on the number of custom-priority entries installed in one behaviour.
MaxOverrides == 2

\* coreValues: importance in hundredths and the manifestation context tags.
CoreValues ==
    [human_agency |->
        [importance |-> 95,
         manifestations |-> <<"information_sharing", "decision_making", "disagreement",
                              "system_functionality", "persuasion">>],
     truthfulness |->
        [importance |-> 90,
         manifestations |-> <<"knowledge_sharing", "factual_claims", "mistake_handling",
                              "source_attribution", "speculation">>],
     user_wellbeing |->
        [importance |-> 85,
         manifestations |-> <<"emotional_support", "sensitive_topics", "harmful_requests",
                              "user_frustration", "continuous_engagement">>],
     privacy_security |->
        [importance |-> 80,
         manifestations |-> <<"data_collection", "personal_information",
                              "security_practices", "data_sharing", "local_first">>],
     inclusivity |->
        [importance |-> 75,
         manifestations |-> <<"language_use", "diverse_perspectives", "accessibility",
                              "cultural_awareness", "bias_mitigation">>],
     authenticity |->
        [importance |-> 70,
         manifestations |-> <<"identity", "capabilities", "reasoning", "engagement",
                              "uncertainty">>]]

CoreValueIds == DOMAIN CoreValues

\* The value ids the modelled callers pass to resolveConflict, and the pairs
\* they pass to setCustomPriority.
ArbitratedValueIds == {"human_agency", "truthfulness", "user_wellbeing"}

OverridePairs ==
    {<<"truthfulness", "human_agency">>, <<"human_agency", "truthfulness">>,
     <<"user_wellbeing", "human_agency">>}

\* Contexts: the intention types of userIntentions, conversationState
\* (recentSentiment in hundredths, activeTopics) and, for each recent
\* message, the set of manifestation context tags its text contains.
Contexts ==
    [userIntentions : {<<>>, <<"decision">>},
     conversationState : [recentSentiment : {0, 0 - 60}, activeTopics : {<<>>}],
     recentMessages : {<<>>}]
    \cup
    [userIntentions : {<<"question_factual">>},
     conversationState : [recentSentiment : {0}, activeTopics : {<<"health">>}],
     recentMessages : {<<{"persuasion"}>>}]

\* Context patterns handed to setCustomPriority; entry 0 of a priority table
\* stands for the key 'default', entry i > 0 for JSON.stringify of pattern i.
ContextPatterns ==
    <<[userIntentions |-> <<"decision">>],
      [conversationState |-> [recentSentiment |-> 0 - 60, activeTopics |-> <<>>]]>>

DefaultKey == 0

ContextKeys == 0..Len(ContextPatterns)

PriorityFactors == {0 - 1, 1}

\* intention.type.includes(type), for the intention types of Contexts.
TypeIncludes(t, sub) ==
    \/ t = sub
    \/ t = "question_factual" /\ sub = "question"

HasIntentionOfType(ctx, types) ==
    \E i \in DOMAIN ctx.userIntentions :
        \E ty \in types : TypeIncludes(ctx.userIntentions[i], ty)

SensitiveTopics == {"health", "politics", "religion", "finance", "personal crisis"}

\* ValueHierarchy.getManifestationContextRelevance, in thousandths.
ManifestationContextRelevance(contextType, ctx) ==
    CASE contextType = "information_sharing" ->
            IF HasIntentionOfType(ctx, {"query", "inquiry", "information_request"})
            THEN 900 ELSE 0
      [] contextType = "decision_making" ->
            IF HasIntentionOfType(ctx, {"decision", "choice", "selection"})
            THEN 1000 ELSE 0
      [] contextType = "disagreement" ->
            IF ctx.conversationState.recentSentiment < 0 - 30 THEN 800 ELSE 0
      [] contextType = "emotional_support" ->
            IF ctx.conversationState.recentSentiment < 0 - 50 THEN 900 ELSE 0
      [] contextType = "sensitive_topics" ->
            IF \E i \in DOMAIN ctx.conversationState.activeTopics :
                   ctx.conversationState.activeTopics[i] \in SensitiveTopics
            THEN 700 ELSE 0
      [] contextType = "knowledge_sharing" ->
            IF HasIntentionOfType(ctx, {"question", "factual_query", "explanation_request"})
            THEN 800 ELSE 0
      [] OTHER ->
            IF \E i \in DOMAIN ctx.recentMessages : contextType \in ctx.recentMessages[i]
            THEN 400 ELSE 100

\* ValueHierarchy.getValueApplicability, in thousandths.
ValueApplicability(valueId, ctx) ==
    LET ms == CoreValues[valueId].manifestations
        F[i \in 0..Len(ms)] ==
            IF i = 0 THEN 500
            ELSE LET rel == ManifestationContextRelevance(ms[i], ctx)
                 IN IF rel > 0 THEN Max(F[i - 1], 500 + rel \div 2) ELSE F[i - 1]
    IN F[Len(ms)]

\* matchesContextPattern: every key of the pattern is a key of the context
\* with a JSON-equal value.
MatchesContextPattern(ctx, pattern) ==
    \A key \in DOMAIN pattern : key \in DOMAIN ctx /\ ctx[key] = pattern[key]

\* customPriorities[<<value1Id, value2Id>>] is the insertion-ordered context
\* map of the pair: a sequence of [key, factor], empty when the pair has none.
NoPriorities == [pair \in CoreValueIds \X CoreValueIds |-> <<>>]

HasKey(table, key) == \E i \in DOMAIN table : table[i].key = key

\* Map.set: overwrite in place, or append.
MapSet(table, key, factor) ==
    IF HasKey(table, key)
    THEN [i \in DOMAIN table |->
            IF table[i].key = key THEN [key |-> key, factor |-> factor] ELSE table[i]]
    ELSE Append(table, [key |-> key, factor |-> factor])

\* getCustomPriorityInContext consulting the 'default' entry only.
CustomPriorityDefaultOnly(cp, value1Id, value2Id, ctx) ==
    LET table == cp[<<value1Id, value2Id>>]
    IN IF HasKey(table, DefaultKey)
       THEN table[CHOOSE i \in DOMAIN table : table[i].key = DefaultKey].factor
       ELSE 0

\* ValueHierarchy.getCustomPriorityInContext.
CustomPriorityInContext(cp, value1Id, value2Id, ctx) ==
    LET table == cp[<<value1Id, value2Id>>]
        matching == {i \in DOMAIN table :
                        /\ table[i].key # DefaultKey
                        /\ MatchesContextPattern(ctx, ContextPatterns[table[i].key])}
    IN IF matching # {}
       THEN table[CHOOSE i \in matching : \A j \in matching : i <= j].factor
       ELSE IF HasKey(table, DefaultKey)
            THEN table[CHOOSE i \in DOMAIN table : table[i].key = DefaultKey].factor
            ELSE 0

\* The applicability test with any difference counting.
ApplicabilityDiffersAtAll(a1, a2) == a1 # a2

\* Math.abs(value1Applicability - value2Applicability) > 0.3 on the doubles
\* the applicabilities take: 1.0 - 0.7 evaluates to 0.30000000000000004.
ApplicabilityDiffers(a1, a2) ==
    \/ a1 - a2 > 300
    \/ a2 - a1 > 300
    \/ {a1, a2} = {1000, 700}

\* ValueHierarchy.resolveConflict: the id of the returned value.
ResolveConflict(cp, value1Id, value2Id, ctx) ==
    LET customPriority == CustomPriorityInContext(cp, value1Id, value2Id, ctx)
        a1 == ValueApplicability(value1Id, ctx)
        a2 == ValueApplicability(value2Id, ctx)
    IN IF customPriority # 0
       THEN (IF customPriority > 0 THEN value1Id ELSE value2Id)
       ELSE IF ApplicabilityDiffers(a1, a2)
            THEN (IF a1 - a2 > 0 THEN value1Id ELSE value2Id)
            ELSE IF CoreValues[value1Id].importance >= CoreValues[value2Id].importance
                 THEN value1Id ELSE value2Id

NoConflict == [value1 |-> "none", value2 |-> "none", winner |-> "none"]

ValueInit ==
    /\ customPriorities = NoPriorities
    /\ lastConflict = NoConflict

OverrideCount(cp) ==
    LET pairs == CoreValueIds \X CoreValueIds
    IN Cardinality({<<pair, i>> \in pairs \X (1..(Len(ContextPatterns) + 1)) :
                        i <= Len(cp[pair])})

\* ValueHierarchy.setCustomPriority (both ids exist in the hierarchy).
SetCustomPriority(value1Id, value2Id, priorityFactor, contextKey) ==
    /\ OverrideCount(customPriorities) < MaxOverrides
       \/ HasKey(customPriorities[<<value1Id, value2Id>>], contextKey)
    /\ customPriorities' =
           [customPriorities EXCEPT ![<<value1Id, value2Id>>] =
               MapSet(@, contextKey, priorityFactor)]
    /\ UNCHANGED <<lastConflict, exceptValue>>

ResolveConflictCall(value1Id, value2Id, ctx) ==
    /\ lastConflict' = [value1 |-> value1Id, value2 |-> value2Id,
                        winner |-> ResolveConflict(customPriorities, value1Id, value2Id, ctx)]
    /\ UNCHANGED <<customPriorities, exceptValue>>

\* ValueHierarchy.getPriorityValue on a non-empty list of value ids: the
\* first value is the current winner, and resolveConflict(currentWinner,
\* values[i]) replaces it for each further value in turn.
GetPriorityValue(cp, list, ctx) ==
    LET F[i \in 1..Len(list)] ==
            IF i = 1 THEN list[1]
            ELSE ResolveConflict(cp, F[i - 1], list[i], ctx)
    IN  F[Len(list)]

\* The lists handed to getPriorityValue: the arbitrated values, each at most
\* once, in any order.
PriorityLists ==
    {list \in UNION {[1..k -> ArbitratedValueIds] : k \in 1..3} :
        \A i, j \in DOMAIN list : i # j => list[i] # list[j]}

GetPriorityValueCall(list, ctx) ==
    /\ lastPriority' = [called |-> TRUE, values |-> list, context |-> ctx,
                        winner |-> GetPriorityValue(customPriorities, list, ctx)]
    /\ UNCHANGED <<lastTensions, exceptTension>>

\* The relevantValues lists handed to identifyValueTensions: the core values
\* that pass a filter, in the order of coreValues or in the reverse order.
CoreValueOrder ==
    <<"human_agency", "truthfulness", "user_wellbeing", "privacy_security",
      "inclusivity", "authenticity">>

Filtered(kept) ==
    LET F[i \in 0..Len(CoreValueOrder)] ==
            IF i = 0 THEN <<>>
            ELSE IF i \in kept THEN Append(F[i - 1], CoreValueOrder[i]) ELSE F[i - 1]
    IN F[Len(CoreValueOrder)]

Reversed(list) == [i \in 1..Len(list) |-> list[Len(list) + 1 - i]]

RelevantValueLists ==
    LET lists == {Filtered(kept) : kept \in {k \in SUBSET DOMAIN CoreValueOrder :
                                                Cardinality(k) >= 2}}
    IN lists \cup {Reversed(list) : list \in lists}

\* Math.abs(value1Applicability - value2Applicability) < 0.2 on the doubles
\* the applicabilities take: 0.7 - 0.5 evaluates to 0.19999999999999996.
ApplicabilityNear(a1, a2) ==
    \/ a1 - a2 < 200 /\ a2 - a1 < 200
    \/ {a1, a2} = {700, 500}

\* The importance test with the boundary 0.1 included.
ImportanceDiffersOrAtBoundary(i1, i2) == i1 - i2 >= 10 \/ i2 - i1 >= 10

\* Math.abs(value1.importance - value2.importance) > 0.1 on the doubles the
\* importances are: 0.8 - 0.7 evaluates to 0.10000000000000009, the other
\* differences of one tenth to 0.09999999999999998.
ImportanceDiffers(i1, i2) ==
    \/ i1 - i2 > 10
    \/ i2 - i1 > 10
    \/ {i1, i2} = {80, 70}

\* Two values have a manifestation with the same context and a different
\* behavior; every manifestation of the core values has a behavior of its own.
ManifestationOverlap(value1Id, value2Id) ==
    /\ value1Id # value2Id
    /\ \E i \in DOMAIN CoreValues[value1Id].manifestations :
         \E j \in DOMAIN CoreValues[value2Id].manifestations :
            CoreValues[value1Id].manifestations[i] = CoreValues[value2Id].manifestations[j]

NoTension == "null"

\* ValueHierarchy.detectTensionType.
DetectTensionType(value1Id, value2Id, ctx) ==
    LET value1Applicability == ValueApplicability(value1Id, ctx)
        value2Applicability == ValueApplicability(value2Id, ctx)
    IN IF /\ ApplicabilityNear(value1Applicability, value2Applicability)
          /\ ImportanceDiffers(CoreValues[value1Id].importance,
                               CoreValues[value2Id].importance)
       THEN "priority"
       ELSE IF ManifestationOverlap(value1Id, value2Id)
            THEN "interpretation"
            ELSE IF value1Applicability > 700 /\ value2Applicability > 700
                 THEN "application"
                 ELSE NoTension

\* ValueHierarchy.identifyValueTensions: the tensions pushed, in the order of
\* the two loops (contextElements left out).
IdentifyValueTensions(relevantValues, ctx) ==
    LET n == Len(relevantValues)
        F[k \in 0..(n * n)] ==
            IF k = 0 THEN <<>>
            ELSE LET i == ((k - 1) \div n) + 1
                     j == ((k - 1) % n) + 1
                     tensionType == DetectTensionType(relevantValues[i], relevantValues[j], ctx)
                 IN IF j > i /\ tensionType # NoTension
                    THEN Append(F[k - 1], [valueId1 |-> relevantValues[i],
                                           valueId2 |-> relevantValues[j],
                                           tensionType |-> tensionType])
                    ELSE F[k - 1]
    IN F[n * n]

NoTensionsCall == [called |-> FALSE]

TensionInit == lastTensions = NoTensionsCall /\ lastPriority = NoCall

IdentifyValueTensionsCall(relevantValues, ctx) ==
    /\ lastTensions' = [called |-> TRUE, relevantValues |-> relevantValues, context |-> ctx,
                        tensions |-> IdentifyValueTensions(relevantValues, ctx)]
    /\ UNCHANGED <<lastPriority, exceptTension>>


(***************************************************************************)
(* WorkingMemory                                                           *)
(***************************************************************************)

\* Bounds: messages added between two resets, and the clock.
MaxMessages == 4

MaxCapMessages == 11

MaxTime == 5

maxRecentMessages == 10

\* entityExpirationTime = 30 minutes, in the clock's units of 10 minutes.
entityExpirationTime == 3

\* One clock unit in milliseconds, for the activity score.
TickMs == 600000

\* String.toLowerCase on the entity values of the model.
ToLowerCase(v) == IF v = "Alice" THEN "alice" ELSE v

\* entity.normalizedValue || entity.value.toLowerCase(); the modelled
\* mentions carry no normalizedValue of their own.
NormalizedValue(e) == ToLowerCase(e.value)

\* `${entity.type}:${normalizedValue}` as a pair.
WMEntityKey(e) == <<e.type, NormalizedValue(e)>>

MapHas(map, key) == \E i \in DOMAIN map : map[i].key = key

\* A faulty merge that takes the new mention's confidence as it comes.
UpdateExistingEntityOverwrite(existing, e, t) ==
    [existing EXCEPT !.lastMentionedAt = t,
                     !.mentionCount = (IF @ = 0 THEN 1 ELSE @) + 1,
                     !.confidence = e.confidence]

\* updateEntities, the branch for a key already in the map.
UpdateExistingEntity(existing, e, t) ==
    [existing EXCEPT !.lastMentionedAt = t,
                     !.mentionCount = (IF @ = 0 THEN 1 ELSE @) + 1,
                     !.confidence = Max(existing.confidence, e.confidence)]

\* updateEntities / focusOnEntity, the branch for a new key.
NewEntity(e, t) ==
    [key |-> WMEntityKey(e), type |-> e.type, value |-> e.value,
     normalizedValue |-> NormalizedValue(e), confidence |-> e.confidence,
     firstMentionedAt |-> t, lastMentionedAt |-> t, mentionCount |-> 1]

Expired(entity, t) == t - entity.lastMentionedAt > entityExpirationTime

\* cleanupExpiredEntities.
CleanupExpiredEntities(map, t) == SelectSeq(map, LAMBDA entity : ~Expired(entity, t))

\* updateEntities: merge every mention in order, then clean up.
UpdateEntities(map, entities, t) ==
    LET F[i \in 0..Len(entities)] ==
            IF i = 0 THEN map
            ELSE LET e == entities[i]
                     prev == F[i - 1]
                 IN IF MapHas(prev, WMEntityKey(e))
                    THEN [j \in DOMAIN prev |->
                            IF prev[j].key = WMEntityKey(e)
                            THEN UpdateExistingEntity(prev[j], e, t)
                            ELSE prev[j]]
                    ELSE Append(prev, NewEntity(e, t))
    IN CleanupExpiredEntities(F[Len(entities)], t)

Take(s, n) == SubSeq(s, 1, Min(n, Len(s)))

TakeLast(s, n) == SubSeq(s, Max(1, Len(s) - n + 1), Len(s))

\* updateIntentions: the two most confident new intentions first, five kept.
UpdateIntentions(recent, intentions) == Take(Take(intentions, 2) \o recent, 5)

\* updateTopics: append the unseen topic/concept entity values, keep the
\* last five.
UpdateTopics(topics, entities) ==
    LET F[i \in 0..Len(entities)] ==
            IF i = 0 THEN topics
            ELSE IF /\ entities[i].type \in {"topic", "concept"}
                    /\ ~(\E j \in DOMAIN F[i - 1] : F[i - 1][j] = entities[i].value)
                 THEN Append(F[i - 1], entities[i].value)
                 ELSE F[i - 1]
        added == F[Len(entities)]
    IN IF Len(added) > 5 THEN TakeLast(added, 5) ELSE added

\* updateEngagementLevel, in hundredths.
EngagementAdjustment(m) ==
    (IF m.length > 100 THEN 10
     ELSE IF m.length > 50 THEN 5
     ELSE IF m.length < 10 THEN 0 - 5 ELSE 0)
    + (IF m.hasQuestionMark THEN 5 ELSE 0)
    + (IF m.primaryIntention \in {"command", "request_action"} THEN 10 ELSE 0)

UpdateEngagementLevel(level, m) ==
    Max(0, Min(100, (IF level = 0 THEN 50 ELSE level) + EngagementAdjustment(m)))

\* The activity score of getActiveEntities, in milliseconds.
ActivityScore(entity, t) ==
    (IF entity.mentionCount = 0 THEN 1 ELSE entity.mentionCount) * 10000
        - (t - entity.lastMentionedAt) * TickMs

\* Array.prototype.sort by descending score; the sort is stable.
SortByScore(s, t) ==
    LET Insert(sorted, x) ==
            LET before == {i \in DOMAIN sorted :
                              ActivityScore(sorted[i], t) >= ActivityScore(x, t)}
                k == Cardinality(before)
            IN SubSeq(sorted, 1, k) \o <<x>> \o SubSeq(sorted, k + 1, Len(sorted))
        F[i \in 0..Len(s)] == IF i = 0 THEN <<>> ELSE Insert(F[i - 1], s[i])
    IN F[Len(s)]

\* getActiveEntities: the ten most active entities.
ActiveEntities(map, t) == Take(SortByScore(map, t), 10)

\* refreshFocusState.  attentionPriorities is a function of the three
\* fields kept here and is not stored.
RefreshFocusState(map, topics, intentions, t) ==
    [activeTopics |-> topics,
     activeEntities |-> ActiveEntities(map, t),
     recentIntentions |-> intentions]

EmptyFocus == [activeTopics |-> <<>>, activeEntities |-> <<>>, recentIntentions |-> <<>>]

WMInit ==
    /\ now = 0
    /\ recentMessages = <<>>
    /\ entityMap = <<>>
    /\ conversationState =
           [messageCount |-> 0, activeTopics |-> <<>>, userEngagementLevel |-> 50]
    /\ currentFocus = EmptyFocus
    /\ wmLastOp = [op |-> "constructor"]

\* addMessage; the message id is the running message count.
AddMessageEffect(m) ==
    /\ LET pushed == Append(recentMessages, conversationState.messageCount + 1)
           map == IF Len(m.entities) > 0
                  THEN UpdateEntities(entityMap, m.entities, now) ELSE entityMap
           intentions == IF Len(m.detectedIntentions) > 0
                         THEN UpdateIntentions(currentFocus.recentIntentions,
                                               m.detectedIntentions)
                         ELSE currentFocus.recentIntentions
           topics == UpdateTopics(conversationState.activeTopics, m.entities)
       IN /\ recentMessages' =
                 IF Len(pushed) > maxRecentMessages THEN Tail(pushed) ELSE pushed
          /\ entityMap' = map
          /\ conversationState' =
                 [messageCount |-> conversationState.messageCount + 1,
                  activeTopics |-> topics,
                  userEngagementLevel |->
                      IF m.sender = "user"
                      THEN UpdateEngagementLevel(conversationState.userEngagementLevel, m)
                      ELSE conversationState.userEngagementLevel]
          /\ currentFocus' = RefreshFocusState(map, topics, intentions, now)
    /\ wmLastOp' = [op |-> "addMessage", message |-> m]

AddMessage(m, limit) ==
    /\ conversationState.messageCount < limit
    /\ AddMessageEffect(m)
    /\ UNCHANGED <<now, exceptWM>>

FocusOnEntity(e) ==
    /\ entityMap' =
           IF MapHas(entityMap, WMEntityKey(e))
           THEN [i \in DOMAIN entityMap |->
                    IF entityMap[i].key = WMEntityKey(e)
                    THEN [entityMap[i] EXCEPT !.lastMentionedAt = now]
                    ELSE entityMap[i]]
           ELSE Append(entityMap, NewEntity(e, now))
    /\ currentFocus' = RefreshFocusState(entityMap', conversationState.activeTopics,
                                         currentFocus.recentIntentions, now)
    /\ wmLastOp' = [op |-> "focusOnEntity", entity |-> e]
    /\ UNCHANGED <<now, recentMessages, conversationState, exceptWM>>

\* focusOnTopic: move the topic to the end of the active topics.
FocusOnTopic(topic) ==
    /\ conversationState' =
           [conversationState EXCEPT !.activeTopics =
               Append(SelectSeq(@, LAMBDA x : x # topic), topic)]
    /\ currentFocus' = RefreshFocusState(entityMap, conversationState'.activeTopics,
                                         currentFocus.recentIntentions, now)
    /\ wmLastOp' = [op |-> "focusOnTopic", topic |-> topic]
    /\ UNCHANGED <<now, recentMessages, entityMap, exceptWM>>

\* reset() keeping the entity table of the old context.
WMResetKeepingEntities ==
    /\ recentMessages' = <<>>
    /\ conversationState' =
           [messageCount |-> 0, activeTopics |-> <<>>, userEngagementLevel |-> 50]
    /\ currentFocus' = EmptyFocus
    /\ wmLastOp' = [op |-> "reset", messagesBefore |-> conversationState.messageCount,
                    entitiesBefore |-> Len(entityMap)]
    /\ UNCHANGED <<now, entityMap, exceptWM>>

\* reset(): this.context is replaced by a new empty context; wmLastOp notes
\* what the old one held.
WMReset ==
    /\ recentMessages' = <<>>
    /\ entityMap' = <<>>
    /\ conversationState' =
           [messageCount |-> 0, activeTopics |-> <<>>, userEngagementLevel |-> 50]
    /\ currentFocus' = EmptyFocus
    /\ wmLastOp' = [op |-> "reset", messagesBefore |-> conversationState.messageCount,
                    entitiesBefore |-> Len(entityMap)]
    /\ UNCHANGED <<now, exceptWM>>

\* Ten minutes pass.
Tick ==
    /\ now < MaxTime
    /\ now' = now + 1
    /\ wmLastOp' = [op |-> "tick"]
    /\ UNCHANGED <<recentMessages, entityMap, conversationState, currentFocus, exceptWM>>

\* Inputs of the entity specification.
Alice == [type |-> "person", value |-> "Alice", confidence |-> 8]

AliceLower == [type |-> "person", value |-> "alice", confidence |-> 6]

Health == [type |-> "topic", value |-> "health", confidence |-> 9]

EntityMessages ==
    {[sender |-> "user", length |-> 20, hasQuestionMark |-> FALSE,
      primaryIntention |-> "greeting", detectedIntentions |-> <<"greeting">>,
      entities |-> <<Alice>>],
     [sender |-> "user", length |-> 20, hasQuestionMark |-> FALSE,
      primaryIntention |-> "greeting", detectedIntentions |-> <<"greeting">>,
      entities |-> <<AliceLower, Health>>],
     [sender |-> "system", length |-> 20, hasQuestionMark |-> FALSE,
      primaryIntention |-> "system_inform", detectedIntentions |-> <<"system_inform">>,
      entities |-> <<>>]}

\* Inputs of the capacity specification.
TopicEntity(v) == [type |-> "topic", value |-> v, confidence |-> 9]

ConceptEntity(v) == [type |-> "concept", value |-> v, confidence |-> 6]

CapMessages ==
    {[sender |-> "user", length |-> 20, hasQuestionMark |-> FALSE,
      primaryIntention |-> "question_factual",
      detectedIntentions |-> <<"question_factual", "greeting", "request_action">>,
      entities |-> <<TopicEntity("t1"), TopicEntity("t2"), ConceptEntity("t3")>>],
     [sender |-> "user", length |-> 20, hasQuestionMark |-> FALSE,
      primaryIntention |-> "greeting", detectedIntentions |-> <<"greeting">>,
      entities |-> <<TopicEntity("t4"), TopicEntity("t5"), TopicEntity("t6")>>],
     [sender |-> "system", length |-> 20, hasQuestionMark |-> FALSE,
      primaryIntention |-> "system_inform", detectedIntentions |-> <<>>,
      entities |-> <<>>]}

CapTopics == {"t7"}

(***************************************************************************)
(* The event bus, the understanding frameworks and the conversation        *)
(* engines.  A task (a dispatch from the user interface, a timer callback) *)
(* starts only when the call stack is empty and runs as a chain of steps   *)
(* of the top frame; eventBus.next calls its observers synchronously, one  *)
(* nested frame per observer.                                              *)
(***************************************************************************)

\* Bound: user messages dispatched in one run.
MaxDispatches == 2

Conversations == {1, 2}

NoConversation == 0

\* The texts a user dispatches, with their lengths.
UserTexts == {[text |-> "hi", length |-> 2], [text |-> "tell me more about it", length |-> 21]}

\* The text generateResponse returns.
BotText == [text |-> "reply", length |-> 5]

\* getThinkingDelay, in milliseconds.
GetThinkingDelay(t) == Min(500 + t.length * 5, 3000)

\* The subscriber callback of subscribeToEvents reacts to these event types
\* and to more.
FrameworkCallsEnhanced(eventType) ==
    CASE eventType \in {"userMessage", "enhancedUserMessage"} -> "processUserMessage"
      [] eventType = "systemMessage" -> "processSystemMessage"
      [] OTHER -> "ignore"

\* What the subscriber callback of subscribeToEvents calls for an event type.
FrameworkCalls(eventType) ==
    CASE eventType = "userMessage" -> "processUserMessage"
      [] eventType = "systemMessage" -> "processSystemMessage"
      [] OTHER -> "ignore"

\* The engine's subscriber reacts to user messages only.
EngineHandles(eventType) == eventType = "userMessage"

NewFramework == [constructed |-> TRUE, messages |-> <<>>, tracked |-> <<>>]

NoFramework == [constructed |-> FALSE, messages |-> <<>>, tracked |-> <<>>]

\* A frame of eventBus.next(event): the observers are copied when the call
\* starts and called in order.
NextFrame(type, t) ==
    [kind |-> "next", type |-> type, text |-> t, observers |-> subscribers, i |-> 1,
     conv |-> NoConversation, sender |-> "none", pc |-> "deliver"]

\* A frame of processUserMessage / processSystemMessage of conversation c's
\* framework.
ProcessFrame(c, sender, t) ==
    [kind |-> "process", type |-> "none", text |-> t, observers |-> <<>>, i |-> 0,
     conv |-> c, sender |-> sender, pc |-> "recognize"]

\* A frame of the engine's subscriber callback.
EngineFrame(c, t) ==
    [kind |-> "engine", type |-> "none", text |-> t, observers |-> <<>>, i |-> 0,
     conv |-> c, sender |-> "none", pc |-> "store"]

\* A frame of the setTimeout callback of the engine.
TimerFrame(c, t) ==
    [kind |-> "timer", type |-> "none", text |-> t, observers |-> <<>>, i |-> 0,
     conv |-> c, sender |-> "none", pc |-> "typingOff"]

Top == stack[Len(stack)]

Pop == SubSeq(stack, 1, Len(stack) - 1)

\* The stack with its top frame at program point pc.
TopAt(pc) == [stack EXCEPT ![Len(stack)].pc = pc]

Running(kind, pc) == Len(stack) > 0 /\ Top.kind = kind /\ Top.pc = pc

BusInit ==
    /\ subscribers = <<>>
    /\ engines = {}
    /\ frameworks = [c \in Conversations |-> NoFramework]
    /\ stack = <<>>
    /\ timers = <<>>
    /\ database = [c \in Conversations |-> <<>>]
    /\ dispatched = 0
    /\ taskOrigin = NoConversation

\* initConversationEngine: construct the framework, which subscribes, then
\* subscribe the engine.
InitConversationEngine(c) ==
    /\ stack = <<>>
    /\ ~frameworks[c].constructed
    /\ frameworks' = [frameworks EXCEPT ![c] = NewFramework]
    /\ subscribers' = subscribers \o <<[kind |-> "framework", conv |-> c],
                                       [kind |-> "engine", conv |-> c]>>
    /\ engines' = engines \cup {c}
    /\ UNCHANGED <<stack, timers, database, dispatched, taskOrigin, exceptBus>>

\* shutdown: only the engine's own subscription is removed.
Shutdown(c) ==
    /\ stack = <<>>
    /\ c \in engines
    /\ subscribers' = SelectSeq(subscribers,
                                LAMBDA s : ~(s.kind = "engine" /\ s.conv = c))
    /\ engines' = engines \ {c}
    /\ UNCHANGED <<frameworks, stack, timers, database, dispatched, taskOrigin, exceptBus>>

\* dispatchUserMessage(text) from the user interface of conversation c.
DispatchUserMessage(c, t) ==
    /\ stack = <<>>
    /\ c \in engines
    /\ dispatched < MaxDispatches
    /\ dispatched' = dispatched + 1
    /\ taskOrigin' = c
    /\ stack' = <<NextFrame("userMessage", t)>>
    /\ UNCHANGED <<subscribers, engines, frameworks, timers, database, exceptBus>>

\* Subject.next calls the next observer.
Deliver ==
    /\ Running("next", "deliver")
    /\ Top.i <= Len(Top.observers)
    /\ LET s == Top.observers[Top.i]
           advanced == [stack EXCEPT ![Len(stack)].i = @ + 1]
       IN stack' =
            IF s.kind = "framework" /\ FrameworkCalls(Top.type) = "processUserMessage"
            THEN Append(advanced, ProcessFrame(s.conv, "user", Top.text))
            ELSE IF s.kind = "framework" /\ FrameworkCalls(Top.type) = "processSystemMessage"
            THEN Append(advanced, ProcessFrame(s.conv, "system", Top.text))
            ELSE IF s.kind = "engine" /\ EngineHandles(Top.type)
            THEN Append(advanced, EngineFrame(s.conv, Top.text))
            ELSE advanced
    /\ UNCHANGED <<subscribers, engines, frameworks, timers, database, dispatched,
                   taskOrigin, exceptBus>>

\* Subject.next returns after the last observer.
NextReturn ==
    /\ Running("next", "deliver")
    /\ Top.i > Len(Top.observers)
    /\ stack' = Pop
    /\ UNCHANGED <<subscribers, engines, frameworks, timers, database, dispatched,
                   taskOrigin, exceptBus>>

\* processUserMessage steps 1-3 / processSystemMessage: entities,
\* intentions and the enhanced message are computed.
ProcessRecognize ==
    /\ Running("process", "recognize")
    /\ stack' = TopAt("addMessage")
    /\ UNCHANGED <<subscribers, engines, frameworks, timers, database, dispatched,
                   taskOrigin, exceptBus>>

\* workingMemory.addMessage(enhancedMessage).
ProcessAddMessage ==
    /\ Running("process", "addMessage")
    /\ frameworks' = [frameworks EXCEPT ![Top.conv].messages =
                         Append(@, <<Top.sender, Top.text.text>>)]
    /\ stack' = TopAt(IF Top.sender = "user" THEN "trackMessage" ELSE "emit")
    /\ UNCHANGED <<subscribers, engines, timers, database, dispatched, taskOrigin,
                   exceptBus>>

\* patternTracker.trackMessage(enhancedMessage), for user messages only.
ProcessTrackMessage ==
    /\ Running("process", "trackMessage")
    /\ frameworks' = [frameworks EXCEPT ![Top.conv].tracked = Append(@, Top.text.text)]
    /\ stack' = TopAt("emit")
    /\ UNCHANGED <<subscribers, engines, timers, database, dispatched, taskOrigin,
                   exceptBus>>

\* eventBus.next of the enhanced message.
ProcessEmit ==
    /\ Running("process", "emit")
    /\ stack' = Append(TopAt("return"),
                       NextFrame(IF Top.sender = "user" THEN "enhancedUserMessage"
                                 ELSE "enhancedSystemMessage", Top.text))
    /\ UNCHANGED <<subscribers, engines, frameworks, timers, database, dispatched,
                   taskOrigin, exceptBus>>

ProcessReturn ==
    /\ Running("process", "return")
    /\ stack' = Pop
    /\ UNCHANGED <<subscribers, engines, frameworks, timers, database, dispatched,
                   taskOrigin, exceptBus>>

\* The engine's callback stores the user message.
EngineStore ==
    /\ Running("engine", "store")
    /\ database' = [database EXCEPT ![Top.conv] = Append(@, <<"user", Top.text.text>>)]
    /\ stack' = TopAt("process")
    /\ UNCHANGED <<subscribers, engines, frameworks, timers, dispatched, taskOrigin,
                   exceptBus>>

\* understandingFramework.processUserMessage(userMessage), called directly.
EngineProcess ==
    /\ Running("engine", "process")
    /\ stack' = Append(TopAt("typing"), ProcessFrame(Top.conv, "user", Top.text))
    /\ UNCHANGED <<subscribers, engines, frameworks, timers, database, dispatched,
                   taskOrigin, exceptBus>>

\* dispatchTyping(true, 'bot').
EngineTyping ==
    /\ Running("engine", "typing")
    /\ stack' = Append(TopAt("setTimeout"), NextFrame("typing", Top.text))
    /\ UNCHANGED <<subscribers, engines, frameworks, timers, database, dispatched,
                   taskOrigin, exceptBus>>

\* setTimeout(callback, thinkingTime); the callback returns.
EngineSetTimeout ==
    /\ Running("engine", "setTimeout")
    /\ timers' = Append(timers, [conv |-> Top.conv, text |-> Top.text,
                                 delay |-> GetThinkingDelay(Top.text)])
    /\ stack' = Pop
    /\ UNCHANGED <<subscribers, engines, frameworks, database, dispatched, taskOrigin,
                   exceptBus>>

RemoveAt(s, i) == SubSeq(s, 1, i - 1) \o SubSeq(s, i + 1, Len(s))

\* A timer fires.  Timers fire in the order of their due times: a timer
\* created later fires first only if its delay is shorter.
TimerFires(i) ==
    /\ stack = <<>>
    /\ i \in DOMAIN timers
    /\ \A j \in 1..(i - 1) : timers[i].delay < timers[j].delay
    /\ timers' = RemoveAt(timers, i)
    /\ taskOrigin' = timers[i].conv
    /\ stack' = <<TimerFrame(timers[i].conv, timers[i].text)>>
    /\ UNCHANGED <<subscribers, engines, frameworks, database, dispatched, exceptBus>>

\* dispatchTyping(false, 'bot').
TimerTypingOff ==
    /\ Running("timer", "typingOff")
    /\ stack' = Append(TopAt("respond"), NextFrame("typing", Top.text))
    /\ UNCHANGED <<subscribers, engines, frameworks, timers, database, dispatched,
                   taskOrigin, exceptBus>>

\* createResponseContext, generateResponse, then processSystemMessage.
TimerRespond ==
    /\ Running("timer", "respond")
    /\ stack' = Append(TopAt("dispatchBot"), ProcessFrame(Top.conv, "system", BotText))
    /\ UNCHANGED <<subscribers, engines, frameworks, timers, database, dispatched,
                   taskOrigin, exceptBus>>

\* dispatchBotMessage(botResponse).
TimerDispatchBot ==
    /\ Running("timer", "dispatchBot")
    /\ stack' = Append(TopAt("storeBot"), NextFrame("botMessage", BotText))
    /\ UNCHANGED <<subscribers, engines, frameworks, timers, database, dispatched,
                   taskOrigin, exceptBus>>

\* The bot message is stored; the timer callback returns.
TimerStoreBot ==
    /\ Running("timer", "storeBot")
    /\ database' = [database EXCEPT ![Top.conv] = Append(@, <<"bot", BotText.text>>)]
    /\ stack' = Pop
    /\ UNCHANGED <<subscribers, engines, frameworks, timers, dispatched, taskOrigin,
                   exceptBus>>

(***************************************************************************)
(* Reflection and evolve: the capacities' parameters, the synchronous      *)
(* capacity calls that read them while a message is processed, and the     *)
(* evolve calls that write them.                                           *)
(***************************************************************************)

\* Bounds: applicability enhancements installed, insights kept.
MaxEnhancements == 2

MaxInsights == 2

\* AttentionManager's constructor parameters, in hundredths.
DefaultParameters == [attentionThreshold |-> 50, decayRate |-> 10, maxSecondaryFoci |-> 3]

\* The values Math.random() can lead to in PresenceCapacity.evolve:
\* attentionThreshold in [0.4, 0.6), decayRate in [0.1, 0.15), and 3 or 4
\* secondary foci.
RandomParameters ==
    [attentionThreshold : {40, 55}, decayRate : {10, 14}, maxSecondaryFoci : {3, 4}]

NoAction == [value1Id |-> "none", value2Id |-> "none", priorityFactor |-> 0,
             contextKey |-> DefaultKey, enhancements |-> <<>>]

\* The insights handed to evolve.  The description is the phrase the
\* handlers search it for; contextKey = DefaultKey stands for a missing
\* contextPattern.
Insights ==
    {[targetCapacity |-> "valueGrounding", insightType |-> "improvement",
      description |-> "value tension",
      suggestedAction |-> [NoAction EXCEPT !.value1Id = "truthfulness",
                                           !.value2Id = "human_agency",
                                           !.priorityFactor = 1, !.contextKey = 1]],
     [targetCapacity |-> "valueGrounding", insightType |-> "improvement",
      description |-> "value tension",
      suggestedAction |-> [NoAction EXCEPT !.value1Id = "user_wellbeing",
                                           !.value2Id = "human_agency",
                                           !.priorityFactor = 1]],
     [targetCapacity |-> "valueGrounding", insightType |-> "pattern",
      description |-> "applicability",
      suggestedAction |-> [NoAction EXCEPT !.enhancements = <<"truthfulness">>]],
     [targetCapacity |-> "presence", insightType |-> "improvement",
      description |-> "other", suggestedAction |-> NoAction],
     [targetCapacity |-> "presence", insightType |-> "pattern",
      description |-> "distraction", suggestedAction |-> NoAction],
     [targetCapacity |-> "presence", insightType |-> "pattern",
      description |-> "focus", suggestedAction |-> NoAction],
     [targetCapacity |-> "all", insightType |-> "warning",
      description |-> "other", suggestedAction |-> NoAction]}

\* The insights reflect() derives from the logs: none of them addresses the
\* value-grounding handlers.
ReflectedInsights ==
    {i \in Insights : i.targetCapacity = "all" \/ i.description = "distraction"}

Idle == [pc |-> "idle", ctx |-> 0, snapshot |-> <<>>]

\* The parameters a capacity call reads.
TunableState == <<customPriorities, enhancements, parameters>>

TurnInProgress == turn.pc # "idle"

\* A capacity call that awaits its processContext result.
TurnYieldsAtProcessContext(pc) == pc = "applyValueAlignment"

\* Whether a capacity call gives up the thread at a program point: engage,
\* processContext and alignWithValues are synchronous throughout.
TurnYields(pc) == FALSE

\* Another task (an evolve call, a reflect step) may run.
MayRunTask == ~TurnInProgress \/ TurnYields(turn.pc)

EvolveInit ==
    /\ enhancements = [v \in CoreValueIds |-> <<>>]
    /\ parameters = DefaultParameters
    /\ turn = Idle
    /\ insightHistory = <<>>
    /\ reflectPc = "idle"

EnhancementCount == Cardinality({<<v, i>> \in CoreValueIds \X (1..MaxEnhancements + 1) :
                                    i \in DOMAIN enhancements[v]})

\* ContextualValueApplicability.enhance.
Enhance(list) ==
    LET F[i \in 0..Len(list)] ==
            IF i = 0 THEN enhancements
            ELSE [F[i - 1] EXCEPT ![list[i]] = Append(@, list[i])]
    IN F[Len(list)]

\* evolve(insight) adjusting the importance of value1 by the priority factor
\* next to installing the override.
EvolveValueGroundingStoringPriority(insight) ==
    /\ MayRunTask
    /\ IF insight.targetCapacity # "valueGrounding"
       THEN UNCHANGED <<customPriorities, enhancements>>
       ELSE CASE insight.insightType = "improvement" ->
                   /\ OverrideCount(customPriorities) < MaxOverrides
                   /\ customPriorities' =
                        IF /\ insight.description = "value tension"
                           /\ insight.suggestedAction.value1Id # "none"
                           /\ insight.suggestedAction.value2Id # "none"
                           /\ insight.suggestedAction.contextKey # DefaultKey
                        THEN [customPriorities EXCEPT
                                 ![<<insight.suggestedAction.value1Id,
                                     insight.suggestedAction.value2Id>>] =
                                     MapSet(@, insight.suggestedAction.contextKey,
                                            insight.suggestedAction.priorityFactor)]
                        ELSE customPriorities
                   /\ UNCHANGED enhancements
              [] insight.insightType = "pattern" ->
                   /\ EnhancementCount < MaxEnhancements
                   /\ enhancements' =
                        IF insight.description = "applicability"
                        THEN Enhance(insight.suggestedAction.enhancements)
                        ELSE enhancements
                   /\ UNCHANGED customPriorities
              [] OTHER -> UNCHANGED <<customPriorities, enhancements>>
    /\ values' =
         IF /\ insight.targetCapacity = "valueGrounding"
            /\ insight.insightType = "improvement"
            /\ insight.description = "value tension"
            /\ insight.suggestedAction.value1Id # "none"
            /\ insight.suggestedAction.value2Id # "none"
            /\ insight.suggestedAction.contextKey # DefaultKey
         THEN [i \in DOMAIN values |->
                 IF values[i].id = insight.suggestedAction.value1Id
                 THEN [values[i] EXCEPT
                          !.importance = Min(100, @ + 5 * insight.suggestedAction.priorityFactor)]
                 ELSE values[i]]
         ELSE values
    /\ UNCHANGED <<parameters, turn, insightHistory, reflectPc, trackerVars, lastConflict,
                   wmVars, busVars, loggerVars, entityTrackerVars, intentionVars,
                   pipelineVars, tensionVars, callVars, triggerVars, syncVars>>

\* ValueGroundingCapacity.evolve(insight).
EvolveValueGrounding(insight) ==
    /\ MayRunTask
    /\ IF insight.targetCapacity # "valueGrounding"
       THEN UNCHANGED <<customPriorities, enhancements>>
       ELSE CASE insight.insightType = "improvement" ->
                   /\ OverrideCount(customPriorities) < MaxOverrides
                   /\ customPriorities' =
                        IF /\ insight.description = "value tension"
                           /\ insight.suggestedAction.value1Id # "none"
                           /\ insight.suggestedAction.value2Id # "none"
                           /\ insight.suggestedAction.contextKey # DefaultKey
                        THEN [customPriorities EXCEPT
                                 ![<<insight.suggestedAction.value1Id,
                                     insight.suggestedAction.value2Id>>] =
                                     MapSet(@, insight.suggestedAction.contextKey,
                                            insight.suggestedAction.priorityFactor)]
                        ELSE customPriorities
                   /\ UNCHANGED enhancements
              [] insight.insightType = "pattern" ->
                   /\ EnhancementCount < MaxEnhancements
                   /\ enhancements' =
                        IF insight.description = "applicability"
                        THEN Enhance(insight.suggestedAction.enhancements)
                        ELSE enhancements
                   /\ UNCHANGED customPriorities
              [] OTHER -> UNCHANGED <<customPriorities, enhancements>>
    /\ UNCHANGED <<parameters, turn, insightHistory, reflectPc, exceptEvolve>>

\* PresenceCapacity.evolve(insight).
EvolvePresence(insight, random) ==
    /\ MayRunTask
    /\ parameters' =
         IF insight.targetCapacity # "presence" THEN parameters
         ELSE IF insight.insightType = "improvement" THEN random
         ELSE IF insight.insightType = "pattern" /\ insight.description = "distraction"
         THEN [parameters EXCEPT !.decayRate = 5]
         ELSE IF insight.insightType = "pattern" /\ insight.description = "focus"
         THEN [parameters EXCEPT !.attentionThreshold = 60]
         ELSE parameters
    /\ UNCHANGED <<customPriorities, enhancements, turn, insightHistory, reflectPc,
                   exceptEvolve>>

\* alignWithValues(response, context) is called for a message.
AlignWithValues(c) ==
    /\ ~TurnInProgress
    /\ turn' = [pc |-> "getRelevantValues", ctx |-> c, snapshot |-> TunableState]
    /\ UNCHANGED <<customPriorities, enhancements, parameters, insightHistory,
                   reflectPc, exceptEvolve>>

\* processContext and applyValueAlignment, statement by statement.
AlignStep ==
    /\ turn.pc \in {"getRelevantValues", "identifyValueTensions",
                    "generateValueConstraints", "applyValueAlignment"}
    /\ turn' = CASE turn.pc = "getRelevantValues" ->
                      [turn EXCEPT !.pc = "identifyValueTensions"]
                 [] turn.pc = "identifyValueTensions" ->
                      [turn EXCEPT !.pc = "generateValueConstraints"]
                 [] turn.pc = "generateValueConstraints" ->
                      [turn EXCEPT !.pc = "applyValueAlignment"]
                 [] OTHER -> Idle
    /\ UNCHANGED <<customPriorities, enhancements, parameters, insightHistory,
                   reflectPc, exceptEvolve>>

\* PresenceCapacity.engage(interaction, context) is called for a message.
Engage(c) ==
    /\ ~TurnInProgress
    /\ turn' = [pc |-> "updateFocus", ctx |-> c, snapshot |-> TunableState]
    /\ UNCHANGED <<customPriorities, enhancements, parameters, insightHistory,
                   reflectPc, exceptEvolve>>

EngageStep ==
    /\ turn.pc \in {"updateFocus", "registerInteraction"}
    /\ turn' = IF turn.pc = "updateFocus"
               THEN [turn EXCEPT !.pc = "registerInteraction"] ELSE Idle
    /\ UNCHANGED <<customPriorities, enhancements, parameters, insightHistory,
                   reflectPc, exceptEvolve>>

\* reflect() up to its await of queryLogs.
ReflectStart ==
    /\ MayRunTask
    /\ reflectPc = "idle"
    /\ reflectPc' = "awaitLogs"
    /\ UNCHANGED <<customPriorities, enhancements, parameters, turn, insightHistory,
                   exceptEvolve>>

\* reflect() after the await: the insights found are appended to the
\* history; no parameter is written.
ReflectResume(found) ==
    /\ MayRunTask
    /\ reflectPc = "awaitLogs"
    /\ Len(insightHistory) + Len(found) <= MaxInsights
    /\ insightHistory' = insightHistory \o found
    /\ reflectPc' = "idle"
    /\ UNCHANGED <<customPriorities, enhancements, parameters, turn, exceptEvolve>>

(***************************************************************************)
(* ContextualValueApplicability and ValueGroundingCapacity.processContext. *)
(* Scores are in thousandths.                                              *)
(***************************************************************************)

\* The value objects of coreValues, as the capacity's constructor copies
\* them into this.values.
CoreValueObjects ==
    [i \in DOMAIN CoreValueOrder |->
        [id |-> CoreValueOrder[i],
         importance |-> CoreValues[CoreValueOrder[i]].importance,
         manifestations |-> CoreValues[CoreValueOrder[i]].manifestations]]

\* The contexts scored: those of Contexts and one whose recent message
\* contains the word 'sad'.
ScoringContexts ==
    Contexts \cup
    [userIntentions : {<<>>},
     conversationState : [recentSentiment : {0}, activeTopics : {<<>>}],
     recentMessages : {<<{"sad"}>>}]

\* containsKeywords: a recent message contains one of the keywords.
ContainsKeywords(ctx, keywords) ==
    \E i \in DOMAIN ctx.recentMessages : ctx.recentMessages[i] \cap keywords # {}

\* ContextualValueApplicability.scoreManifestationMatch.
ScoreManifestationMatch(contextType, ctx) ==
    CASE contextType = "information_sharing" ->
            IF HasIntentionOfType(ctx, {"query", "inquiry", "information_request"})
            THEN 900 ELSE 400
      [] contextType = "decision_making" ->
            IF HasIntentionOfType(ctx, {"decision", "choice", "selection"}) THEN 1000
            ELSE IF ContainsKeywords(ctx, {"decide", "choice", "option", "alternative",
                                           "should I"})
                 THEN 800 ELSE 300
      [] contextType = "disagreement" ->
            IF ctx.conversationState.recentSentiment < 0 - 30 THEN 800
            ELSE IF ContainsKeywords(ctx, {"disagree", "incorrect", "wrong", "mistaken",
                                           "not true"})
                 THEN 700 ELSE 200
      [] contextType = "emotional_support" ->
            IF ctx.conversationState.recentSentiment < 0 - 50 THEN 900
            ELSE IF ContainsKeywords(ctx, {"sad", "upset", "worried", "anxious",
                                           "depressed", "concerned"})
                 THEN 800 ELSE 300
      [] contextType = "sensitive_topics" ->
            IF \E i \in DOMAIN ctx.conversationState.activeTopics :
                   ctx.conversationState.activeTopics[i] \in SensitiveTopics
            THEN 700
            ELSE IF ContainsKeywords(ctx, SensitiveTopics) THEN 600 ELSE 200
      [] contextType = "knowledge_sharing" ->
            IF HasIntentionOfType(ctx, {"question", "factual_query", "explanation_request"})
            THEN 800
            ELSE IF ContainsKeywords(ctx, {"what is", "how does", "why is", "when did",
                                           "where is"})
                 THEN 700 ELSE 400
      [] contextType = "system_functionality" ->
            IF HasIntentionOfType(ctx, {"capability_query", "help_request", "how_to"})
            THEN 900
            ELSE IF ContainsKeywords(ctx, {"can you", "how do you", "feature", "function",
                                           "capability"})
                 THEN 700 ELSE 300
      [] contextType = "persuasion" ->
            IF HasIntentionOfType(ctx, {"convince", "persuade", "recommend"})
            THEN 800 ELSE 200
      [] contextType = "mistake_handling" ->
            IF ContainsKeywords(ctx, {"mistake", "error", "wrong", "incorrect", "fix"})
            THEN 900 ELSE 300
      [] contextType \in {"data_collection", "personal_information", "data_sharing"} ->
            IF ContainsKeywords(ctx, {"data", "information", "privacy", "share",
                                      "collect", "store"})
            THEN 800 ELSE 300
      [] contextType \in {"language_use", "cultural_awareness", "bias_mitigation"} -> 500
      [] contextType \in {"identity", "capabilities"} -> 600
      [] OTHER -> 400

\* scoreManifestations: the highest match of the value's manifestations.
ScoreManifestations(value, ctx) ==
    IF value.manifestations = <<>> THEN 500
    ELSE LET scores == {ScoreManifestationMatch(value.manifestations[i], ctx) :
                           i \in DOMAIN value.manifestations}
         IN  CHOOSE x \in scores : \A y \in scores : y <= x

\* An enhancement: its context pattern (0 for the empty pattern {}, else an
\* index of ContextPatterns whose values are objects, compared as JSON) and
\* its applicabilityModifier in thousandths.
EmptyPattern == 0

EnhancementMatches(ctx, enhancement) ==
    \/ enhancement.contextPattern = EmptyPattern
    \/ /\ enhancement.contextPattern # EmptyPattern
       /\ MatchesContextPattern(ctx, ContextPatterns[enhancement.contextPattern])

\* applyEnhancements: the sum of (modifier - 1) / 2 over the matching
\* enhancements of the value, capped to [-0.5, 0.5].
ApplyEnhancements(valueEnhancements, ctx) ==
    LET F[i \in 0..Len(valueEnhancements)] ==
            IF i = 0 THEN 0
            ELSE IF EnhancementMatches(ctx, valueEnhancements[i])
                 THEN F[i - 1] + (valueEnhancements[i].applicabilityModifier - 1000) \div 2
                 ELSE F[i - 1]
    IN  Max(0 - 500, Min(500, F[Len(valueEnhancements)]))

\* getApplicabilityScore with the manifestation term only.
ApplicabilityScoreWithoutImportance(value, ctx, enh) ==
    Max(0, Min(1000, (ScoreManifestations(value, ctx) * 3) \div 10
                       + ApplyEnhancements(enh[value.id], ctx) \div 5))

\* getApplicabilityScore: importance is in hundredths.
ApplicabilityScore(value, ctx, enh) ==
    Max(0, Min(1000, value.importance * 5
                       + (ScoreManifestations(value, ctx) * 3) \div 10
                       + ApplyEnhancements(enh[value.id], ctx) \div 5))

IsRelevant(value, ctx, enh) == ApplicabilityScore(value, ctx, enh) > 300

\* Array.prototype.sort((a, b) => scoreB - scoreA): stable, highest first.
SortByApplicability(vals, ctx, enh) ==
    LET scores == CHOOSE list \in {[i \in DOMAIN vals |->
                                       ApplicabilityScore(vals[i], ctx, enh)] \o <<>>} : TRUE
        Before(j, i) == scores[j] > scores[i] \/ (scores[j] = scores[i] /\ j < i)
        rank == CHOOSE list \in {[i \in DOMAIN vals |->
                    Cardinality({j \in DOMAIN vals : Before(j, i)}) + 1] \o <<>>} : TRUE
    IN  [p \in DOMAIN vals |-> vals[CHOOSE i \in DOMAIN vals : rank[i] = p]] \o <<>>

\* getRelevantValues(context, values): filter builds a new array, which is
\* then sorted.
GetRelevantValues(ctx, vals, enh) ==
    LET filtered == CHOOSE list \in
                       {SelectSeq(vals, LAMBDA value : IsRelevant(value, ctx, enh))} : TRUE
    IN  SortByApplicability(filtered, ctx, enh)

\* The enhancement tables of a ContextualValueApplicability instance.
EnhancementEntries ==
    [contextPattern : {EmptyPattern, 2}, applicabilityModifier : {0, 2000}]

NoEnhancements == [v \in CoreValueIds |-> <<>>]

EnhancementTables ==
    {[NoEnhancements EXCEPT !["user_wellbeing"] = w, !["truthfulness"] = t] :
        w \in SeqsUpTo(EnhancementEntries, MaxEnhancements),
        t \in SeqsUpTo(EnhancementEntries, 1)}

ValueIdsOf(vals) == [i \in DOMAIN vals |-> vals[i].id]

\* getRelevantValues(context, this.values) on an instance with the given
\* enhancements; one call per behaviour, nothing is written.
GetRelevantValuesCall(ctx, enh) ==
    /\ lastRelevant = NoCall
    /\ lastRelevant' = [called |-> TRUE, context |-> ctx, enhancements |-> enh,
                        relevantValues |-> GetRelevantValues(ctx, values, enh)]
    /\ UNCHANGED <<lastRecognition, lastDetection, lastReflection, values, exceptCall>>


\* The enhancement the 'applicability' insight of Insights installs: it
\* applies in every context and doubles the applicability.
InstalledEnhancement == [contextPattern |-> EmptyPattern, applicabilityModifier |-> 2000]

InstalledEnhancements ==
    [v \in CoreValueIds |-> [i \in DOMAIN enhancements[v] |-> InstalledEnhancement]]

\* The resolveConflict call of addTensionConstraints for the last tension.
LastTensionConflict(tensions, ctx) ==
    LET tension == tensions[Len(tensions)]
    IN  [value1 |-> tension.valueId1, value2 |-> tension.valueId2,
         winner |-> ResolveConflict(customPriorities, tension.valueId1, tension.valueId2, ctx)]

\* ValueGroundingCapacity.processContext(context): getRelevantValues over
\* this.values, identifyValueTensions over the result, and the constraints,
\* which resolve every tension.
ProcessContextCall(ctx) ==
    LET relevantValues ==
            CHOOSE list \in {GetRelevantValues(ctx, values, InstalledEnhancements)} : TRUE
        relevantIds == CHOOSE list \in {ValueIdsOf(relevantValues) \o <<>>} : TRUE
        tensions == CHOOSE list \in {IdentifyValueTensions(relevantIds, ctx)} : TRUE
    IN  /\ lastRelevant' = [called |-> TRUE, context |-> ctx,
                            enhancements |-> InstalledEnhancements,
                            relevantValues |-> relevantValues]
        /\ lastTensions' = [called |-> TRUE, relevantValues |-> relevantIds,
                            context |-> ctx, tensions |-> tensions]
        /\ lastConflict' = IF tensions = <<>> THEN lastConflict
                           ELSE LastTensionConflict(tensions, ctx)
        /\ UNCHANGED <<customPriorities, lastRecognition, lastDetection, lastReflection, values,
                       lastPriority,
                       trackerVars, wmVars, busVars, evolveVars, loggerVars,
                       entityTrackerVars, intentionVars, pipelineVars, triggerVars, syncVars>>

(***************************************************************************)
(* InteractionLogger                                                       *)
(***************************************************************************)

\* Bound: log entries created in one run.
MaxLogs == 3

maxInMemoryLogs == 100

\* How a call of a storage method ends: its promise resolves, its promise
\* rejects, or the call itself throws.  The StorageManager class defines
\* none of saveInteractionLog, getRecentInteractionLogs and
\* queryInteractionLogs, so calling them throws a TypeError at the call.
StorageOutcomes == {"resolves", "rejects", "throws"}

EventTypes == {"user_message", "error"}

NoLimit == 0

\* LogQueryParams: eventTypes ({} when absent) and limit (NoLimit when
\* absent).
QueryParams == [eventTypes : {{}, {"error"}}, limit : {NoLimit, 1}]

\* The filter of queryLogs.
MatchesQuery(log, params) == params.eventTypes = {} \/ log.type \in params.eventTypes

NoQuery == [pc |-> "idle", params |-> [eventTypes |-> {}, limit |-> NoLimit],
            results |-> <<>>]

LoggerInit ==
    /\ logs = <<>>
    /\ storage = <<>>
    /\ loadPc = "pending"
    /\ query = NoQuery
    /\ nextLogId = 1
    /\ lastLog = [op |-> "constructor", completed |-> TRUE, storage |-> "none",
                  entry |-> 0, matches |-> <<>>, result |-> <<>>]

\* Whether the persistence call ends logInteraction with an exception: a
\* rejection goes to .catch, an exception thrown by the call does not.
PersistEndsCall(outcome) == outcome = "throws"

\* logInteraction(event).
LogInteraction(type, outcome) ==
    /\ nextLogId <= MaxLogs
    /\ LET log == [id |-> nextLogId, type |-> type]
           pushed == Append(logs, log)
       IN /\ logs' = IF Len(pushed) > maxInMemoryLogs THEN Tail(pushed) ELSE pushed
          /\ storage' = IF outcome = "resolves" THEN Append(storage, log) ELSE storage
          /\ lastLog' = [op |-> "logInteraction", completed |-> ~PersistEndsCall(outcome),
                         storage |-> outcome, entry |-> log.id, matches |-> <<>>,
                         result |-> <<>>]
    /\ nextLogId' = nextLogId + 1
    /\ UNCHANGED <<loadPc, query, exceptLogger>>

\* The constructor's loadRecentLogs settles: on success the in-memory logs
\* are replaced by the stored ones, a failure is caught.
LoadRecentLogsSettles(outcome) ==
    /\ loadPc = "pending"
    /\ loadPc' = "done"
    /\ logs' = IF outcome = "resolves" THEN TakeLast(storage, maxInMemoryLogs) ELSE logs
    /\ lastLog' = [op |-> "loadRecentLogs", completed |-> TRUE, storage |-> outcome,
                   entry |-> 0, matches |-> <<>>, result |-> <<>>]
    /\ UNCHANGED <<storage, query, nextLogId, exceptLogger>>

ApplyLimit(results, limit) ==
    IF limit # NoLimit /\ Len(results) > limit THEN Take(results, limit) ELSE results

\* queryLogs(params) up to its storage query, or to its end when the
\* in-memory logs already fill the limit.
QueryLogs(params) ==
    /\ query.pc = "idle"
    /\ LET results == SelectSeq(logs, LAMBDA log : MatchesQuery(log, params))
       IN IF params.limit = NoLimit \/ Len(results) < params.limit
          THEN /\ query' = [pc |-> "awaitStorage", params |-> params, results |-> results]
               /\ UNCHANGED lastLog
          ELSE /\ query' = NoQuery
               /\ lastLog' = [op |-> "queryLogs", completed |-> TRUE, storage |-> "none",
                              entry |-> 0, matches |-> results,
                              result |-> ApplyLimit(results, params.limit)]
    /\ UNCHANGED <<logs, storage, loadPc, nextLogId, exceptLogger>>

\* queryLogs after its storage query: the stored logs not yet among the
\* results are appended, a failure is caught.
QueryLogsResumes(outcome) ==
    /\ query.pc = "awaitStorage"
    /\ LET storageLogs == SelectSeq(storage, LAMBDA log : MatchesQuery(log, query.params))
           unique == SelectSeq(storageLogs,
                               LAMBDA log : ~(\E i \in DOMAIN query.results :
                                                 query.results[i].id = log.id))
           merged == IF outcome = "resolves" THEN query.results \o unique
                     ELSE query.results
       IN lastLog' = [op |-> "queryLogs", completed |-> TRUE, storage |-> outcome,
                      entry |-> 0, matches |-> query.results,
                      result |-> ApplyLimit(merged, query.params.limit)]
    /\ query' = NoQuery
    /\ UNCHANGED <<logs, storage, loadPc, nextLogId, exceptLogger>>

(***************************************************************************)
(* EntityTracker.  Saliences are in thousandths, lifespans in tenths, the  *)
(* clock in units of 2 minutes; a product with 0.95 is rounded down to the *)
(* thousandth.                                                             *)
(***************************************************************************)

\* Bound: the clock.
MaxClock == 6

EntityIds == {"person_bob"}

\* One clock unit in minutes: a lifespan loses a tenth per minute.
MinutesPerTick == 2

\* An id the tracker does not hold.
Untracked == [present |-> FALSE, salience |-> 0, lastMentioned |-> 0]

NoLifespan == 0 - 1

\* The salience extractEntitiesFromMessage gives an extracted entity.
ExtractedSalience == 700

\* The EntityUpdate arguments of updateEntity; salience 0 stands for an
\* update without salience.
EntityUpdates == [id : {"person_bob"}, salience : {0, 50}]

\* The entities extractEntitiesFromMessage finds in a message.
ExtractedEntities == {<<>>, <<[id |-> "person_bob", salience |-> ExtractedSalience]>>}

EntityTrackerInit ==
    /\ clock = 0
    /\ trackedEntities = [id \in EntityIds |-> Untracked]
    /\ entityLifespan = [id \in EntityIds |-> NoLifespan]
    /\ lastCleanupTimestamp = 0
    /\ mentioned = {}

\* The decay of cleanupStaleEntities: Math.max(0.1, salience * 0.95).
DecayedSalience(salience) == Max(100, (salience * 95) \div 100)

\* updateEntity on the two maps: <<entities, lifespans>> afterwards.
UpdateEntityIn(ents, spans, update, t) ==
    IF ents[update.id].present
    THEN <<[ents EXCEPT ![update.id].lastMentioned = t],
           [spans EXCEPT ![update.id] = Min(100, (IF @ = NoLifespan THEN 0 ELSE @) + 10)]>>
    ELSE <<[ents EXCEPT ![update.id] =
               [present |-> TRUE,
                salience |-> IF update.salience = 0 THEN 500 ELSE update.salience,
                lastMentioned |-> t]],
           [spans EXCEPT ![update.id] = 10]>>

\* cleanupStaleEntities on the two maps, once the minute since the last
\* cleanup has passed.
CleanedUp(ents, spans, t) ==
    LET NewLifespan(id) == spans[id] - MinutesPerTick * (t - ents[id].lastMentioned)
        Stays(id) == spans[id] # NoLifespan /\ ents[id].present /\ NewLifespan(id) > 0
    IN <<[id \in EntityIds |->
             IF spans[id] = NoLifespan THEN ents[id]
             ELSE IF Stays(id)
             THEN [ents[id] EXCEPT !.salience = DecayedSalience(@)]
             ELSE Untracked],
         [id \in EntityIds |->
             IF spans[id] = NoLifespan THEN NoLifespan
             ELSE IF Stays(id) THEN NewLifespan(id) ELSE NoLifespan]>>

\* The cleanup is skipped within a minute of the last one.
CleanupDue == ~(MinutesPerTick * (clock - lastCleanupTimestamp) < 1)

\* processMessage(message): clean up, then update every extracted entity.
ProcessMessage(extracted) ==
    /\ LET cleaned == IF CleanupDue
                      THEN CleanedUp(trackedEntities, entityLifespan, clock)
                      ELSE <<trackedEntities, entityLifespan>>
           F[i \in 0..Len(extracted)] ==
               IF i = 0 THEN cleaned
               ELSE UpdateEntityIn(F[i - 1][1], F[i - 1][2], extracted[i], clock)
       IN /\ trackedEntities' = F[Len(extracted)][1]
          /\ entityLifespan' = F[Len(extracted)][2]
    /\ lastCleanupTimestamp' = IF CleanupDue THEN clock ELSE lastCleanupTimestamp
    /\ mentioned' = {extracted[i].id : i \in DOMAIN extracted}
    /\ UNCHANGED <<clock, exceptEntityTracker>>

\* updateEntity(entityUpdate), called directly.
UpdateEntity(update) ==
    /\ LET updated == UpdateEntityIn(trackedEntities, entityLifespan, update, clock)
       IN /\ trackedEntities' = updated[1]
          /\ entityLifespan' = updated[2]
    /\ mentioned' = {update.id}
    /\ UNCHANGED <<clock, lastCleanupTimestamp, exceptEntityTracker>>

\* Time passes.
ClockAdvances(ticks) ==
    /\ clock + ticks <= MaxClock
    /\ clock' = clock + ticks
    /\ mentioned' = {}
    /\ UNCHANGED <<trackedEntities, entityLifespan, lastCleanupTimestamp,
                   exceptEntityTracker>>

(***************************************************************************)
(* IntentionRecognizer.  Date.now() is a pair <<ticks, ms>> of 5-minute     *)
(* ticks and milliseconds within the tick; confidences are in units of     *)
(* 1/100000, so that up to four decays by 0.8 stay exact.                  *)
(***************************************************************************)

\* Bounds: the 5-minute ticks and the single milliseconds that pass, and the
\* user messages recognised, in one behaviour.
MaxIntentionTicks == 3

MaxIntentionMs == 1

MaxRecognitions == 2

\* 5 * 60 * 1000
IntentionTickMs == 300000

NowMs(t) == t[1] * IntentionTickMs + t[2]

\* The messages: the role and, per matching intention type in the order of
\* intentionPatterns, the number of its patterns that match the content.
IntentionMessages ==
    { [role |-> "user", matched |-> <<>>],
      [role |-> "user", matched |-> <<[type |-> "information_request", patterns |-> 1]>>],
      [role |-> "user", matched |-> <<[type |-> "information_request", patterns |-> 2],
                                      [type |-> "task_request", patterns |-> 1]>>],
      [role |-> "assistant", matched |-> <<>>] }

\* extractIntentionsFromMessage: one intention per matching type, with id
\* type_Date.now(); the generic one when nothing matches.
ExtractIntentionsFromMessage(message, t) ==
    IF message.matched = <<>>
    THEN << [id |-> <<"general_communication", NowMs(t)>>,
             type |-> "general_communication",
             firstDetected |-> NowMs(t), lastDetected |-> NowMs(t),
             confidence |-> 30000, status |-> "active"] >>
    ELSE [i \in 1..Len(message.matched) |->
            [id |-> <<message.matched[i].type, NowMs(t)>>,
             type |-> message.matched[i].type,
             firstDetected |-> NowMs(t), lastDetected |-> NowMs(t),
             confidence |-> Min(90000, 50000 + 10000 * message.matched[i].patterns),
             status |-> "active"]]

\* The purge threshold of updateIntentionLifespans, 10 * 60 * 1000.
PurgeAfterMs == 600000

\* The decay threshold of updateIntentionLifespans, 5 * 60 * 1000.
DecayAfterMs == 300000

\* The delay of completeIntention's setTimeout, 5 * 60 * 1000.
CompletedKeptMs == 300000

\* Math.max(0.1, confidence * 0.8)
DecayedConfidence(c) == Max(10000, (c * 8) \div 10)

\* updateIntentionLifespans applied to the map at time t
UpdateIntentionLifespans(map, t) ==
    LET aged(i) == IF NowMs(t) - i.lastDetected > DecayAfterMs
                   THEN [i EXCEPT !.confidence = DecayedConfidence(@)]
                   ELSE i
        kept == SelectSeq(map, LAMBDA i : NowMs(t) - i.lastDetected <= PurgeAfterMs)
    IN  [k \in 1..Len(kept) |-> aged(kept[k])]

IntentionIndex(map, id) ==
    IF \E k \in 1..Len(map) : map[k].id = id
    THEN CHOOSE k \in 1..Len(map) : map[k].id = id
    ELSE 0

\* updateIntention applied to the pair <<activeIntentions, intentionHistory>>
UpdateIntention(state, intention, t) ==
    LET map == state[1]
        k == IntentionIndex(map, intention.id) IN
    IF k # 0
    THEN << [map EXCEPT ![k] = [@ EXCEPT !.lastDetected = NowMs(t),
                                         !.confidence = Max(@, intention.confidence),
                                         !.status = intention.status]],
            state[2] >>
    ELSE << Append(map, [intention EXCEPT !.firstDetected = NowMs(t),
                                          !.lastDetected = NowMs(t)]),
            Append(state[2], intention.id) >>

\* the loop of recognizeIntentions over the recognised intentions
RECURSIVE UpdateEachIntention(_, _, _)
UpdateEachIntention(state, intentions, t) ==
    IF intentions = <<>> THEN state
    ELSE UpdateEachIntention(UpdateIntention(state, Head(intentions), t),
                             Tail(intentions), t)

\* getActiveIntentions; getIntentionsForContext returns the same list
GetActiveIntentions == SelectSeq(activeIntentions, LAMBDA i : i.status = "active")

GetIntentionsForContext == GetActiveIntentions

IntentionRecognizerInit ==
    /\ intentionNow = <<0, 0>>
    /\ activeIntentions = <<>>
    /\ intentionHistory = <<>>
    /\ completionTimers = <<>>
    /\ recognitions = 0

\* recognizeIntentions(message, context): a message that is not the user's
\* returns before anything is touched.
RecognizeIntentions(message) ==
    /\ recognitions < MaxRecognitions
    /\ recognitions' = recognitions + 1
    /\ IF message.role # "user"
       THEN UNCHANGED <<activeIntentions, intentionHistory>>
       ELSE LET aged == UpdateIntentionLifespans(activeIntentions, intentionNow)
                recognised == ExtractIntentionsFromMessage(message, intentionNow)
                after == UpdateEachIntention(<<aged, intentionHistory>>, recognised,
                                             intentionNow)
            IN  /\ activeIntentions' = after[1]
                /\ intentionHistory' = after[2]
    /\ UNCHANGED <<intentionNow, completionTimers>>
    /\ UNCHANGED exceptIntention

\* completeIntention(intentionId)
CompleteIntention(k) ==
    /\ k \in 1..Len(activeIntentions)
    /\ activeIntentions[k].status = "active"
    /\ activeIntentions' = [activeIntentions EXCEPT ![k].status = "completed"]
    /\ completionTimers' = Append(completionTimers,
                                  [id |-> activeIntentions[k].id,
                                   due |-> NowMs(intentionNow) + CompletedKeptMs])
    /\ UNCHANGED <<intentionNow, intentionHistory, recognitions>>
    /\ UNCHANGED exceptIntention

\* the callback completeIntention scheduled: activeIntentions.delete(id)
CompletionTimerFires ==
    /\ completionTimers # <<>>
    /\ Head(completionTimers).due <= NowMs(intentionNow)
    /\ activeIntentions' = SelectSeq(activeIntentions,
                                     LAMBDA i : i.id # Head(completionTimers).id)
    /\ completionTimers' = Tail(completionTimers)
    /\ UNCHANGED <<intentionNow, intentionHistory, recognitions>>
    /\ UNCHANGED exceptIntention

\* reset()
IntentionReset ==
    /\ activeIntentions # <<>>
    /\ activeIntentions' = <<>>
    /\ intentionHistory' = <<>>
    /\ UNCHANGED <<intentionNow, completionTimers, recognitions>>
    /\ UNCHANGED exceptIntention

\* Five minutes pass without a call.
IntentionTickPasses ==
    /\ intentionNow[1] < MaxIntentionTicks
    /\ intentionNow' = <<intentionNow[1] + 1, intentionNow[2]>>
    /\ UNCHANGED <<activeIntentions, intentionHistory, completionTimers, recognitions>>
    /\ UNCHANGED exceptIntention

\* One millisecond passes without a call.
IntentionMsPasses ==
    /\ intentionNow[2] < MaxIntentionMs
    /\ intentionNow' = <<intentionNow[1], intentionNow[2] + 1>>
    /\ UNCHANGED <<activeIntentions, intentionHistory, completionTimers, recognitions>>
    /\ UNCHANGED exceptIntention


(***************************************************************************)
(* InteractionPatternTracker                                               *)
(***************************************************************************)

\* Bound on the number of events tracked in one behaviour.
MaxEvents == 5

maxHistorySize == 100

IntentionUnknown == "unknown"

\* Messages handed to trackMessage: sender, primary intention type ("none"
\* when the message has no primaryIntention), entities, and the hour of day
\* of its timestamp.
TrackerEntities == {<<>>, <<[type |-> "topic", value |-> "ai"]>>}

TrackerMessages ==
    [sender : {"user"}, intention : {"greeting", "question_factual"},
     entities : TrackerEntities, hour : {9}]
    \cup [sender : {"user"}, intention : {"none"}, entities : {<<>>}, hour : {10}]
    \cup [sender : {"system"}, intention : {"system_inform"}, entities : {<<>>}, hour : {9}]

\* trackMessage's event: intention falls back to UNKNOWN.
MessageEvent(m) ==
    [type |-> "message", sender |-> m.sender,
     intention |-> IF m.intention = "none" THEN IntentionUnknown ELSE m.intention,
     entities |-> m.entities, hour |-> m.hour]

\* A faulty trackEvent that drops the newest event beyond maxHistorySize.
PushEventDropNewest(h, e) ==
    LET pushed == Append(h, e)
    IN IF Len(pushed) > maxHistorySize THEN SubSeq(pushed, 1, maxHistorySize) ELSE pushed

\* trackEvent: push, then drop the oldest event beyond maxHistorySize.
PushEvent(h, e) ==
    LET pushed == Append(h, e)
    IN IF Len(pushed) > maxHistorySize THEN Tail(pushed) ELSE pushed

UserMessages(h) ==
    SelectSeq(h, LAMBDA e : e.type = "message" /\ e.sender = "user")

\* The elements of s without repetition, in order of first occurrence
\* (the iteration order of Object.entries over string keys).
Distinct(s) ==
    LET F[i \in 0..Len(s)] ==
            IF i = 0 THEN <<>>
            ELSE IF \E j \in 1..(i - 1) : s[j] = s[i] THEN F[i - 1]
                 ELSE Append(F[i - 1], s[i])
    IN F[Len(s)]

CountIn(s, k) == Cardinality({i \in DOMAIN s : s[i] = k})

\* Math.min(0.5 + count * 0.1, 0.9), in tenths.
PatternConfidence(count) == Min(5 + count, 9)

NoHour == 0 - 1

SeqKeys2(um) == [i \in 1..(Len(um) - 1) |-> <<um[i].intention, um[i + 1].intention>>]

SeqKeys3(um) ==
    [i \in 1..(Len(um) - 2) |->
        <<um[i].intention, um[i + 1].intention, um[i + 2].intention>>]

IsSequential(p, key) == p.type = "sequential" /\ p.seqKey = key

\* A faulty upsert that pushes a record without looking for an existing one.
SeqUpsertAlwaysPush(pats, key, count) ==
    Append(pats, [type |-> "sequential", seqKey |-> key, hour |-> NoHour,
                  item |-> <<>>, itemType |-> "none",
                  occurrences |-> count, confidence |-> PatternConfidence(count)])

\* The body of the "frequent sequences" loop for one sequence key.
SeqUpsert(pats, key, count) ==
    IF ~(\E i \in DOMAIN pats : IsSequential(pats[i], key))
    THEN Append(pats, [type |-> "sequential", seqKey |-> key, hour |-> NoHour,
                       item |-> <<>>, itemType |-> "none",
                       occurrences |-> count, confidence |-> PatternConfidence(count)])
    ELSE [i \in DOMAIN pats |->
            IF IsSequential(pats[i], key)
            THEN [pats[i] EXCEPT !.occurrences = @ + 1,
                                 !.confidence = PatternConfidence(pats[i].occurrences + 1)]
            ELSE pats[i]]

DetectSequentialPatterns(pats, h) ==
    IF Len(h) < 3 THEN pats
    ELSE LET um == UserMessages(h)
         IN IF Len(um) < 3 THEN pats
            ELSE LET keys == SeqKeys2(um) \o SeqKeys3(um)
                     order == Distinct(keys)
                     G[i \in 0..Len(order)] ==
                        IF i = 0 THEN pats
                        ELSE IF CountIn(keys, order[i]) >= 2
                             THEN SeqUpsert(G[i - 1], order[i], CountIn(keys, order[i]))
                             ELSE G[i - 1]
                 IN G[Len(order)]

IsTemporal(p, hour) == p.type = "temporal" /\ p.hour = hour

TemporalUpsert(pats, hour, count) ==
    IF ~(\E i \in DOMAIN pats : IsTemporal(pats[i], hour))
    THEN Append(pats, [type |-> "temporal", seqKey |-> <<>>, hour |-> hour,
                       item |-> <<>>, itemType |-> "none",
                       occurrences |-> count, confidence |-> PatternConfidence(count)])
    ELSE [i \in DOMAIN pats |->
            IF IsTemporal(pats[i], hour)
            THEN [pats[i] EXCEPT !.occurrences = @ + 1,
                                 !.confidence = PatternConfidence(pats[i].occurrences + 1)]
            ELSE pats[i]]

HourCount(um, hour) == Cardinality({i \in DOMAIN um : um[i].hour = hour})

\* hourDistribution has integer keys: Object.entries visits them ascending.
DetectTemporalPatterns(pats, h) ==
    IF Len(h) < 5 THEN pats
    ELSE LET um == UserMessages(h)
         IN IF Len(um) < 5 THEN pats
            ELSE LET G[i \in 0..24] ==
                        IF i = 0 THEN pats
                        ELSE IF HourCount(um, i - 1) >= 3
                             THEN TemporalUpsert(G[i - 1], i - 1, HourCount(um, i - 1))
                             ELSE G[i - 1]
                 IN G[24]

IsFrequency(p, item, itemType) ==
    p.type = "frequency" /\ p.item = item /\ p.itemType = itemType

\* A faulty upsert that updates the occurrences and keeps the old confidence.
FrequencyUpsertStaleConfidence(pats, item, itemType, count) ==
    IF ~(\E i \in DOMAIN pats : IsFrequency(pats[i], item, itemType))
    THEN Append(pats, [type |-> "frequency", seqKey |-> <<>>, hour |-> NoHour,
                       item |-> item, itemType |-> itemType,
                       occurrences |-> count, confidence |-> PatternConfidence(count)])
    ELSE [i \in DOMAIN pats |->
            IF IsFrequency(pats[i], item, itemType)
            THEN [pats[i] EXCEPT !.occurrences = count]
            ELSE pats[i]]

\* Frequency patterns are overwritten with the current count on update.
FrequencyUpsert(pats, item, itemType, count) ==
    IF ~(\E i \in DOMAIN pats : IsFrequency(pats[i], item, itemType))
    THEN Append(pats, [type |-> "frequency", seqKey |-> <<>>, hour |-> NoHour,
                       item |-> item, itemType |-> itemType,
                       occurrences |-> count, confidence |-> PatternConfidence(count)])
    ELSE [i \in DOMAIN pats |->
            IF IsFrequency(pats[i], item, itemType)
            THEN [pats[i] EXCEPT !.occurrences = count,
                                 !.confidence = PatternConfidence(count)]
            ELSE pats[i]]

\* `${entity.type}:${entity.normalizedValue || entity.value}` as a pair.
EntityKey(e) == <<e.type, e.value>>

\* All entity keys mentioned by the user messages, one per mention, in order.
EntityMentions(um) ==
    LET F[i \in 0..Len(um)] ==
            IF i = 0 THEN <<>>
            ELSE F[i - 1] \o [j \in 1..Len(um[i].entities) |-> EntityKey(um[i].entities[j])]
    IN F[Len(um)]

DetectFrequencyPatterns(pats, h) ==
    LET um == UserMessages(h)
    IN IF Len(um) < 3 THEN pats
       ELSE LET ints == [i \in 1..Len(um) |-> <<um[i].intention>>]
                iorder == Distinct(ints)
                G[i \in 0..Len(iorder)] ==
                    IF i = 0 THEN pats
                    ELSE IF CountIn(ints, iorder[i]) >= 3
                            /\ 4 * CountIn(ints, iorder[i]) >= Len(um)
                         THEN FrequencyUpsert(G[i - 1], iorder[i], "intention",
                                              CountIn(ints, iorder[i]))
                         ELSE G[i - 1]
                ments == EntityMentions(um)
                eorder == Distinct(ments)
                H[i \in 0..Len(eorder)] ==
                    IF i = 0 THEN G[Len(iorder)]
                    ELSE IF CountIn(ments, eorder[i]) >= 2
                         THEN FrequencyUpsert(H[i - 1], eorder[i], "entity",
                                              CountIn(ments, eorder[i]))
                         ELSE H[i - 1]
            IN H[Len(eorder)]

\* A faulty analysis that rebuilds the pattern list from the current history.
AnalyzePatternsAfresh(pats, h) ==
    DetectFrequencyPatterns(
        DetectTemporalPatterns(DetectSequentialPatterns(<<>>, h), h), h)

AnalyzePatterns(pats, h) ==
    DetectFrequencyPatterns(
        DetectTemporalPatterns(DetectSequentialPatterns(pats, h), h), h)

\* getHighConfidencePatterns(minConfidence), the threshold in tenths
GetHighConfidencePatterns(pats, minConfidence) ==
    SelectSeq(pats, LAMBDA p : p.confidence >= minConfidence)

\* An absent (undefined) or empty currentIntention.
NoIntention == ""

\* getRelevantPatterns; recentEntities absent is the empty list.  0.85 is
\* compared in hundredths.
GetRelevantPatterns(pats, currentIntention, recentEntities) ==
    IF currentIntention = NoIntention /\ recentEntities = <<>>
    THEN GetHighConfidencePatterns(pats, 8)
    ELSE SelectSeq(pats, LAMBDA p :
            \/ /\ p.type = "sequential"
               /\ p.seqKey[1] = currentIntention
            \/ /\ p.type = "frequency"
               /\ p.itemType = "entity"
               /\ \E j \in DOMAIN recentEntities : recentEntities[j] = p.item[2]
            \/ p.confidence * 10 > 85)

NoQueryYet == [called |-> FALSE]

TrackerInit ==
    /\ interactionHistory = <<>>
    /\ patterns = <<>>
    /\ eventsTracked = 0
    /\ relevantQuery = NoQueryYet

\* A faulty trackMessage that records and analyses every message twice.
TrackedTwice(state, m) ==
    LET h1 == CHOOSE h \in {PushEvent(state[1], MessageEvent(m))} : TRUE
        p1 == CHOOSE p \in {AnalyzePatterns(state[2], h1)} : TRUE
        h2 == CHOOSE h \in {PushEvent(h1, MessageEvent(m))} : TRUE
    IN  <<h2, AnalyzePatterns(p1, h2)>>

\* trackMessage applied to the pair <<interactionHistory, patterns>>
Tracked(state, m) ==
    LET h == PushEvent(state[1], MessageEvent(m))
    IN  <<h, AnalyzePatterns(state[2], h)>>

TrackMessage(m) ==
    /\ eventsTracked < MaxEvents
    /\ eventsTracked' = eventsTracked + 1
    /\ interactionHistory' = Tracked(<<interactionHistory, patterns>>, m)[1]
    /\ patterns' = Tracked(<<interactionHistory, patterns>>, m)[2]
    /\ UNCHANGED <<relevantQuery, exceptTracker>>

ResetPatterns ==
    /\ patterns # <<>>
    /\ patterns' = <<>>
    /\ UNCHANGED <<interactionHistory, eventsTracked, relevantQuery>>
    /\ UNCHANGED exceptTracker

\* getRelevantPatterns(currentIntention, recentEntities); nothing is written.
GetRelevantPatternsCall(currentIntention, recentEntities) ==
    /\ relevantQuery' = [called |-> TRUE, currentIntention |-> currentIntention,
                         recentEntities |-> recentEntities,
                         result |-> GetRelevantPatterns(patterns, currentIntention,
                                                        recentEntities)]
    /\ UNCHANGED <<interactionHistory, patterns, eventsTracked>>
    /\ UNCHANGED exceptTracker

\* A tracker whose history is full: five user messages were tracked, then
\* system messages up to maxHistorySize events.  Every further event evicts
\* one of the user messages.
FullHistoryMessages ==
    [i \in 1..maxHistorySize |->
        IF i <= 5
        THEN [sender |-> "user", intention |-> "greeting",
              entities |-> <<[type |-> "topic", value |-> "ai"]>>, hour |-> 9]
        ELSE [sender |-> "system", intention |-> "system_inform",
              entities |-> <<>>, hour |-> 9]]

\* The tracker after trackMessage was called, from state start, with each of
\* the messages in turn.  Each intermediate state is bound as an explicit
\* value, so that it is computed once (\o <<>> turns a function over 1..n
\* into its tuple).
TrackedFrom(start, messages) ==
    LET F[i \in 0..Len(messages)] ==
            IF i = 0 THEN start
            ELSE CHOOSE next \in {<<Tracked(state, messages[i])[1],
                                    Tracked(state, messages[i])[2] \o <<>>>> :
                                      state \in {F[i - 1]}} : TRUE
    IN  F[Len(messages)]

\* The same from the constructed tracker, ten messages at a time (which
\* keeps the evaluation shallow).
TrackedAll(messages) ==
    LET F[b \in 0..((Len(messages) + 9) \div 10)] ==
            IF b = 0 THEN <<<<>>, <<>>>>
            ELSE CHOOSE next \in
                    {TrackedFrom(state, SubSeq(messages, 10 * b - 9,
                                               Min(10 * b, Len(messages)))) :
                        state \in {F[b - 1]}} : TRUE
    IN  F[(Len(messages) + 9) \div 10]

TrackerAtCap ==
    /\ interactionHistory = TrackedAll(FullHistoryMessages)[1]
    /\ patterns = TrackedAll(FullHistoryMessages)[2]
    /\ eventsTracked = 0
    /\ relevantQuery = NoQueryYet


(***************************************************************************)
(* IntentionDetector and the pipeline of one EnhancedUnderstandingFramework *)
(* whose processUserMessage / processSystemMessage are called directly.    *)
(* The framework's working memory and pattern tracker are the variables of *)
(* the sections above.  Intention confidences are in hundredths.           *)
(***************************************************************************)

\* Bound on the messages one behaviour passes to the framework.
MaxPipelineMessages == 4

\* The texts, each with what the regular expressions find in it: per pattern
\* of intentionPatterns that matches, its intention type (in Map order); per
\* intention type with a keyword found as a whole word, the number of such
\* keywords (in Map order); and the entities recognizeEntities returns.
CanYouHelpMe ==
    [text |-> "Can you help me?", length |-> 16,
     endsWithQuestionMark |-> TRUE, hasQuestionMark |-> TRUE,
     patternMatches |-> <<"request_action">>,
     keywordMatches |-> <<[type |-> "request_action", matches |-> 2]>>,
     entities |-> <<ConceptEntity("Can")>>]

HelloThere ==
    [text |-> "hello there", length |-> 11,
     endsWithQuestionMark |-> FALSE, hasQuestionMark |-> FALSE,
     patternMatches |-> <<"greeting">>,
     keywordMatches |-> <<[type |-> "greeting", matches |-> 1]>>,
     entities |-> <<>>]

Thanks ==
    [text |-> "thanks", length |-> 6,
     endsWithQuestionMark |-> FALSE, hasQuestionMark |-> FALSE,
     patternMatches |-> <<>>,
     keywordMatches |-> <<[type |-> "gratitude", matches |-> 1]>>,
     entities |-> <<>>]

Ok ==
    [text |-> "ok", length |-> 2,
     endsWithQuestionMark |-> FALSE, hasQuestionMark |-> FALSE,
     patternMatches |-> <<>>, keywordMatches |-> <<>>, entities |-> <<>>]

PipelineTexts == {CanYouHelpMe, HelloThere, Thanks, Ok}

\* The text of a system message (the welcome message of the demo).
WelcomeText ==
    [text |-> "Welcome to the Enhanced Chat Demo!", length |-> 34,
     hasQuestionMark |-> FALSE,
     entities |-> <<ConceptEntity("Welcome"), ConceptEntity("Enhanced Chat Demo")>>]

\* The hours of day Date.now() falls in.
PipelineHours == {9, 10}

QuestionTypes == {"question_factual", "question_opinion", "question_clarification"}

\* Array.prototype.sort((a, b) => b.confidence - a.confidence): stable,
\* highest confidence first.
SortByConfidence(s) ==
    LET F[i \in 0..Len(s)] ==
            IF i = 0 THEN <<>>
            ELSE LET k == Cardinality({j \in DOMAIN F[i - 1] :
                                          F[i - 1][j].confidence >= s[i].confidence})
                 IN  SubSeq(F[i - 1], 1, k) \o <<s[i]>>
                        \o SubSeq(F[i - 1], k + 1, Len(F[i - 1]))
    IN  F[Len(s)]

\* detectIntentions without the fallback of lines 185-192.
DetectIntentionsNoFallback(t) ==
    LET first == [i \in 1..Len(t.patternMatches) |->
                    [type |-> t.patternMatches[i], confidence |-> 90]]
        eligible == SelectSeq(t.keywordMatches,
                        LAMBDA k : /\ k.matches > 0
                                   /\ ~(\E i \in DOMAIN first :
                                           /\ first[i].type = k.type
                                           /\ first[i].confidence >= 80))
        second == IF first = <<>> \/ first[1].confidence < 80
                  THEN first \o [i \in 1..Len(eligible) |->
                                   [type |-> eligible[i].type,
                                    confidence |-> Min(30 + 20 * eligible[i].matches, 85)]]
                  ELSE first
        third == IF /\ t.endsWithQuestionMark
                    /\ ~(\E i \in DOMAIN second : second[i].type \in QuestionTypes)
                 THEN Append(second, [type |-> "question_factual", confidence |-> 70])
                 ELSE second
    IN  SortByConfidence(third)

\* detectIntentions
DetectIntentions(t) ==
    LET first == [i \in 1..Len(t.patternMatches) |->
                    [type |-> t.patternMatches[i], confidence |-> 90]]
        eligible == SelectSeq(t.keywordMatches,
                        LAMBDA k : /\ k.matches > 0
                                   /\ ~(\E i \in DOMAIN first :
                                           /\ first[i].type = k.type
                                           /\ first[i].confidence >= 80))
        second == IF first = <<>> \/ first[1].confidence < 80
                  THEN first \o [i \in 1..Len(eligible) |->
                                   [type |-> eligible[i].type,
                                    confidence |-> Min(30 + 20 * eligible[i].matches, 85)]]
                  ELSE first
        third == IF /\ t.endsWithQuestionMark
                    /\ ~(\E i \in DOMAIN second : second[i].type \in QuestionTypes)
                 THEN Append(second, [type |-> "question_factual", confidence |-> 70])
                 ELSE second
        fourth == IF third = <<>>
                  THEN <<[type |-> IntentionUnknown, confidence |-> 100]>>
                  ELSE third
    IN  SortByConfidence(fourth)

\* One round of the loop with the command rule asking for more than 0.9.
PrimaryAfterStrictCommand(primary, intention) ==
    LET afterCommand ==
            IF /\ intention.type \in {"command", "request_action"}
               /\ intention.confidence > 90
               /\ primary.type \notin {"command", "request_action"}
            THEN intention ELSE primary
    IN  IF /\ intention.type \in QuestionTypes
           /\ intention.confidence > 80
           /\ afterCommand.type \notin {"command", "request_action"}
           /\ afterCommand.type \notin QuestionTypes
        THEN intention ELSE afterCommand

\* One round of the loop of identifyPrimaryIntention.
PrimaryAfter(primary, intention) ==
    LET afterCommand ==
            IF /\ intention.type \in {"command", "request_action"}
               /\ intention.confidence > 70
               /\ primary.type \notin {"command", "request_action"}
            THEN intention ELSE primary
    IN  IF /\ intention.type \in QuestionTypes
           /\ intention.confidence > 80
           /\ afterCommand.type \notin {"command", "request_action"}
           /\ afterCommand.type \notin QuestionTypes
        THEN intention ELSE afterCommand

\* identifyPrimaryIntention
IdentifyPrimaryIntention(intentions) ==
    IF intentions = <<>> THEN [type |-> IntentionUnknown, confidence |-> 100]
    ELSE LET P[i \in 0..Len(intentions)] ==
                 IF i = 0 THEN intentions[1] ELSE PrimaryAfter(P[i - 1], intentions[i])
         IN  P[Len(intentions)]

IntentionTypes(intentions) == [i \in 1..Len(intentions) |-> intentions[i].type]

\* The enhanced message of processUserMessage, as the working memory reads it.
EnhancedUserMessage(t) ==
    [sender |-> "user", length |-> t.length, hasQuestionMark |-> t.hasQuestionMark,
     primaryIntention |-> IdentifyPrimaryIntention(DetectIntentions(t)).type,
     detectedIntentions |-> IntentionTypes(DetectIntentions(t)),
     entities |-> t.entities]

\* The same message as the pattern tracker reads it.
TrackedUserMessage(t, hour) ==
    [sender |-> "user",
     intention |-> IdentifyPrimaryIntention(DetectIntentions(t)).type,
     entities |-> [i \in 1..Len(t.entities) |->
                      [type |-> t.entities[i].type, value |-> t.entities[i].value]],
     hour |-> hour]

\* The enhanced message of processSystemMessage.
EnhancedSystemMessage(t) ==
    [sender |-> "system", length |-> t.length, hasQuestionMark |-> t.hasQuestionMark,
     primaryIntention |-> "system_inform", detectedIntentions |-> <<"system_inform">>,
     entities |-> t.entities]

PipelineInit == processedTexts = <<>>

\* Bound on the keywords of one intention type found in a text.
MaxKeywordMatches == 3

\* Texts handed to detectIntentions, each given by what the expressions find
\* in it: the intention types with a matching pattern (in Map order), the
\* number of keywords found per intention type, and the trailing '?'.
DetectorTypes == <<"question_factual", "request_action", "command", "greeting">>

DetectorTexts ==
    [patternMatches : {SelectSeq(DetectorTypes, LAMBDA ty : ty \in kept) :
                          kept \in SUBSET {DetectorTypes[i] : i \in DOMAIN DetectorTypes}},
     keywordMatches : {[i \in DOMAIN DetectorTypes |->
                           [type |-> DetectorTypes[i], matches |-> counts[i]]] :
                          counts \in [DOMAIN DetectorTypes -> 0..MaxKeywordMatches]},
     endsWithQuestionMark : BOOLEAN]

\* detectIntentions(text) followed by identifyPrimaryIntention on its
\* result, as processUserMessage calls them; one call per behaviour, the
\* detector keeps no state between calls.
DetectIntentionsCall(t) ==
    /\ lastDetection = NoCall
    /\ lastDetection' = [called |-> TRUE, text |-> t,
                         intentions |-> DetectIntentions(t),
                         primary |-> IdentifyPrimaryIntention(DetectIntentions(t))]
    /\ UNCHANGED <<lastRecognition, lastRelevant, lastReflection, exceptCall>>

\* processUserMessage(text).  The enhancedUserMessage event it emits reaches
\* no subscriber that keeps state here.
ProcessUserMessage(t, hour) ==
    /\ conversationState.messageCount < MaxPipelineMessages
    /\ AddMessageEffect(EnhancedUserMessage(t))
    /\ interactionHistory' =
           Tracked(<<interactionHistory, patterns>>, TrackedUserMessage(t, hour))[1]
    /\ patterns' =
           Tracked(<<interactionHistory, patterns>>, TrackedUserMessage(t, hour))[2]
    /\ eventsTracked' = eventsTracked + 1
    /\ processedTexts' = Append(processedTexts, t.text)
    /\ UNCHANGED <<now, relevantQuery, exceptPipeline>>

\* processSystemMessage(text): the working memory only.
ProcessSystemMessage(t) ==
    /\ conversationState.messageCount < MaxPipelineMessages
    /\ AddMessageEffect(EnhancedSystemMessage(t))
    /\ UNCHANGED <<now, trackerVars, processedTexts, exceptPipeline>>

\* EnhancedUnderstandingFramework.reset(): workingMemory.reset(), then
\* patternTracker.resetPatterns(), which empties the pattern list and leaves
\* the interaction history as it is.
FrameworkReset ==
    /\ recentMessages' = <<>>
    /\ entityMap' = <<>>
    /\ conversationState' =
           [messageCount |-> 0, activeTopics |-> <<>>, userEngagementLevel |-> 50]
    /\ currentFocus' = EmptyFocus
    /\ wmLastOp' = [op |-> "reset", messagesBefore |-> conversationState.messageCount,
                    entitiesBefore |-> Len(entityMap)]
    /\ patterns' = <<>>
    /\ UNCHANGED <<now, interactionHistory, eventsTracked, relevantQuery,
                   processedTexts, exceptPipeline>>


(***************************************************************************)
(* ReflectionEngine.reflect over the logs queryLogs returns.  A log is     *)
(* given by its event type and by what the analysis reads from it: the     *)
(* error name ('unknown' when the event has none), the intention           *)
(* extractUserIntentions finds, the feedback category, or the processing   *)
(* time of the response (slow: 2000 ms, else 400 ms).  The logs are those  *)
(* of one conversation, in timestamp order.                                *)
(***************************************************************************)

\* Bounds: the logs in the scanned window, and the insights the history may
\* hold when a reflection starts.
MaxWindow == 4

MaxEarlierInsights == 1

ErrorNames == {"TypeError", "unknown"}

WindowLogs ==
    [type : {"error"}, key : ErrorNames]
    \cup [type : {"user_message"}, key : {"help_request"}]
    \cup [type : {"user_feedback"}, key : {"positive", "negative"}]
    \cup [type : {"system_response"}, key : {"slow"}]

LogWindows == SeqsUpTo(WindowLogs, MaxWindow)

KeysOfType(window, type) ==
    LET selected == SelectSeq(window, LAMBDA log : log.type = type)
    IN  [i \in DOMAIN selected |-> selected[i].key] \o <<>>

\* calculateFrequencies and the loops over Object.entries: the keys that
\* occur more than threshold times, in order of first occurrence.
FrequentKeys(keys, threshold) ==
    SelectSeq(Distinct(keys), LAMBDA k : CountIn(keys, k) > threshold)

\* identifySuccessfulInteractions: a system response directly followed by
\* positive feedback.
SuccessfulInteractions(window) ==
    {i \in 1..(Len(window) - 1) :
        /\ window[i].type = "system_response"
        /\ window[i + 1].type = "user_feedback"
        /\ window[i + 1].key = "positive"}

\* identifyPatterns with the threshold of the intentions used for the errors.
IdentifyPatternsErrorsAboveThree(window) ==
    LET OfType(type, keys) == [i \in DOMAIN keys |-> [type |-> type, key |-> keys[i]]]
    IN  OfType("frequent_intention", FrequentKeys(KeysOfType(window, "user_message"), 3))
        \o OfType("recurring_error", FrequentKeys(KeysOfType(window, "error"), 3))
        \o OfType("feedback_pattern", FrequentKeys(KeysOfType(window, "user_feedback"), 2))
        \o (IF SuccessfulInteractions(window) # {}
            THEN <<[type |-> "successful_interaction", key |-> "none"]>> ELSE <<>>)

\* identifyPatterns: frequent intentions (> 3), recurring errors (> 2),
\* feedback found (> 2), successful interactions.
IdentifyPatterns(window) ==
    LET OfType(type, keys) == [i \in DOMAIN keys |-> [type |-> type, key |-> keys[i]]]
    IN  OfType("frequent_intention", FrequentKeys(KeysOfType(window, "user_message"), 3))
        \o OfType("recurring_error", FrequentKeys(KeysOfType(window, "error"), 2))
        \o OfType("feedback_pattern", FrequentKeys(KeysOfType(window, "user_feedback"), 2))
        \o (IF SuccessfulInteractions(window) # {}
            THEN <<[type |-> "successful_interaction", key |-> "none"]>> ELSE <<>>)

NoInsight == [insightType |-> "none"]

\* generateInsightFromPattern; subject is what the description and the
\* suggested action name.
GenerateInsightFromPattern(pattern) ==
    CASE pattern.type = "frequent_intention" ->
            [insightType |-> "pattern", targetCapacity |-> "contextualUnderstanding",
             description |-> "frequent intention", subject |-> pattern.key]
      [] pattern.type = "recurring_error" ->
            [insightType |-> "warning", targetCapacity |-> "all",
             description |-> "recurring errors", subject |-> pattern.key]
      [] pattern.type = "feedback_pattern" ->
            IF pattern.key = "negative"
            THEN [insightType |-> "improvement", targetCapacity |-> "growth",
                  description |-> "negative feedback pattern", subject |-> "negative"]
            ELSE NoInsight
      [] pattern.type = "successful_interaction" ->
            [insightType |-> "improvement", targetCapacity |-> "expression",
             description |-> "successful interactions", subject |-> "none"]
      [] OTHER -> NoInsight

PatternInsights(window) ==
    LET found == CHOOSE list \in {IdentifyPatterns(window) \o <<>>} : TRUE
    IN  SelectSeq([i \in DOMAIN found |-> GenerateInsightFromPattern(found[i])],
                  LAMBDA insight : insight # NoInsight)

SumOf(list) ==
    LET F[i \in 0..Len(list)] == IF i = 0 THEN 0 ELSE F[i - 1] + list[i]
    IN  F[Len(list)]

\* analyzePerformance: the average processing time is above one second.
AnalyzePerformance(window) ==
    LET responses == KeysOfType(window, "system_response")
        processingTimes == [i \in DOMAIN responses |->
                               IF responses[i] = "slow" THEN 2000 ELSE 400]
    IN  IF processingTimes # <<>> /\ SumOf(processingTimes) > 1000 * Len(processingTimes)
        THEN <<[insightType |-> "improvement", targetCapacity |-> "all",
                description |-> "response time", subject |-> "none"]>>
        ELSE <<>>

\* analyzeFeedback: more than 30% negative, more than 70% positive.
AnalyzeFeedback(window) ==
    LET categories == KeysOfType(window, "user_feedback")
        totalFeedback == Len(categories)
    IN  IF totalFeedback = 0 THEN <<>>
        ELSE (IF 10 * CountIn(categories, "negative") > 3 * totalFeedback
              THEN <<[insightType |-> "warning", targetCapacity |-> "all",
                      description |-> "negative feedback", subject |-> "none"]>>
              ELSE <<>>)
             \o (IF 10 * CountIn(categories, "positive") > 7 * totalFeedback
                 THEN <<[insightType |-> "pattern", targetCapacity |-> "all",
                         description |-> "positive feedback", subject |-> "none"]>>
                 ELSE <<>>)

\* The number of error events of each type in the window.
ErrorCounts(window) ==
    [errorType \in ErrorNames |-> CountIn(KeysOfType(window, "error"), errorType)]

\* The insights reflect() returns for the window.
NewInsights(window) == PatternInsights(window) \o AnalyzePerformance(window) \o AnalyzeFeedback(window)

\* push with the earlier insights dropped.
PushInsightsReplacing(history, insights) == insights

\* this.insightHistory.push, for each insight in turn.
PushInsights(history, insights) == history \o insights

\* reflect() after its await of queryLogs, given the window returned: every
\* insight is pushed on the history and returned.
ReflectOver(window) ==
    /\ MayRunTask
    /\ reflectPc = "awaitLogs"
    /\ Len(insightHistory) <= MaxEarlierInsights
    /\ LET newInsights == CHOOSE list \in {NewInsights(window) \o <<>>} : TRUE
       IN  /\ insightHistory' = PushInsights(insightHistory, newInsights)
           /\ lastReflection' = [called |-> TRUE, errorCounts |-> ErrorCounts(window),
                                 newInsights |-> newInsights]
    /\ reflectPc' = "idle"
    /\ UNCHANGED <<customPriorities, enhancements, parameters, turn, lastConflict,
                   lastRecognition, lastDetection, lastRelevant, values, trackerVars,
                   wmVars, busVars, loggerVars, entityTrackerVars, intentionVars,
                   pipelineVars, tensionVars, triggerVars, syncVars>>

(***************************************************************************)
(* EntityRecognizer.  A text is given by its length and by what the        *)
(* regular expressions find in it: the matches of the first pass (patterns *)
(* of entityPatterns, in Map order), of the second pass (entityLists) and  *)
(* of the concept expression, each a span [start, end) of the text.        *)
(* Confidences are in tenths.                                              *)
(***************************************************************************)

\* Bounds: the length of a text and the number of first-pass matches.
MaxTextLength == 3

MaxPatternMatches == 2

\* The spans RegExp.exec can report in a text of the given length: every
\* expression of the recognizer consumes at least one character.
Spans(length) == {sp \in (0..length) \X (0..length) : sp[1] < sp[2]}

RecognizerTexts ==
    UNION {[length : {len},
            patternMatches : SeqsUpTo(Spans(len), MaxPatternMatches),
            listMatches : SeqsUpTo(Spans(len), 1),
            conceptMatches : SeqsUpTo(Spans(len), 1)] : len \in 0..MaxTextLength}

\* The text 'Dr. John Smith Street': the PERSON patterns match 'Dr. John'
\* and 'John Smith', the second LOCATION pattern 'Smith Street'; the concept
\* expression matches 'Dr' and 'John Smith Street'.
DrJohnSmithStreet ==
    [length |-> 21,
     patternMatches |-> <<<<0, 8>>, <<4, 14>>, <<9, 21>>>>,
     listMatches |-> <<>>,
     conceptMatches |-> <<<<0, 2>>, <<4, 21>>>>]

SpanEntity(type, sp, confidence) ==
    [type |-> type, startIndex |-> sp[1], endIndex |-> sp[2], confidence |-> confidence]

\* The overlap test of the second and third pass.
OverlapsExisting(entities, sp) ==
    \E i \in DOMAIN entities :
        \/ sp[1] >= entities[i].startIndex /\ sp[1] < entities[i].endIndex
        \/ sp[2] > entities[i].startIndex /\ sp[2] <= entities[i].endIndex

\* Push a match of the second or third pass unless it overlaps.
PushUnlessOverlapping(entities, matches, type, confidence) ==
    LET F[i \in 0..Len(matches)] ==
            IF i = 0 THEN entities
            ELSE IF OverlapsExisting(F[i - 1], matches[i]) THEN F[i - 1]
                 ELSE Append(F[i - 1], SpanEntity(type, matches[i], confidence))
    IN  F[Len(matches)]

\* Array.prototype.sort((a, b) => a.startIndex - b.startIndex): stable.
SortByStartIndex(entities) ==
    LET F[i \in 0..Len(entities)] ==
            IF i = 0 THEN <<>>
            ELSE LET k == Cardinality({j \in DOMAIN F[i - 1] :
                                          F[i - 1][j].startIndex <= entities[i].startIndex})
                 IN  SubSeq(F[i - 1], 1, k) \o <<entities[i]>>
                        \o SubSeq(F[i - 1], k + 1, Len(F[i - 1]))
    IN  F[Len(entities)]

\* The loop of resolveOverlappingEntities over the entities in the given
\* order: <<result, currentEntity>> after each round, then the last push.
ResolveInOrder(sortedEntities) ==
    LET F[i \in 1..Len(sortedEntities)] ==
            IF i = 1 THEN <<<<>>, sortedEntities[1]>>
            ELSE LET result == F[i - 1][1]
                     currentEntity == F[i - 1][2]
                     nextEntity == sortedEntities[i]
                 IN  IF /\ currentEntity.startIndex <= nextEntity.startIndex
                        /\ currentEntity.endIndex > nextEntity.startIndex
                     THEN IF nextEntity.confidence > currentEntity.confidence
                          THEN <<result, nextEntity>>
                          ELSE IF /\ nextEntity.confidence = currentEntity.confidence
                                  /\ nextEntity.endIndex - nextEntity.startIndex >
                                        currentEntity.endIndex - currentEntity.startIndex
                               THEN <<result, nextEntity>>
                               ELSE <<result, currentEntity>>
                     ELSE <<Append(result, currentEntity), nextEntity>>
    IN  Append(F[Len(sortedEntities)][1], F[Len(sortedEntities)][2])

\* resolveOverlappingEntities without the sort.
ResolveOverlappingUnsorted(entities) ==
    IF Len(entities) <= 1 THEN entities ELSE ResolveInOrder(entities)

\* resolveOverlappingEntities (the mention metadata left out).
ResolveOverlappingEntities(entities) ==
    IF Len(entities) <= 1 THEN entities ELSE ResolveInOrder(SortByStartIndex(entities))

\* The entities array of recognizeEntities before the overlaps are resolved.
CandidateEntities(t) ==
    LET first == [i \in 1..Len(t.patternMatches) |->
                     SpanEntity("pattern", t.patternMatches[i], 8)]
        second == PushUnlessOverlapping(first, t.listMatches, "list", 9)
    IN  PushUnlessOverlapping(second, t.conceptMatches, "concept", 6)

\* recognizeEntities
RecognizeEntities(t) == ResolveOverlappingEntities(CandidateEntities(t))

RecognizerInit == lastRecognition = NoCall

\* One recognizeEntities call per behaviour: the recognizer keeps no state
\* between calls.
RecognizeEntitiesCall(t) ==
    /\ lastRecognition = NoCall
    /\ lastRecognition' = [called |-> TRUE, text |-> t, entities |-> RecognizeEntities(t)]
    /\ UNCHANGED <<lastDetection, lastRelevant, lastReflection, exceptCall>>


(***************************************************************************)
(* Specifications: one per component                                       *)
(***************************************************************************)

(***************************************************************************)
(* ReflectionEngine.triggerReflectionIfDue.  Time is counted in halves of  *)
(* the default reflection interval (12 hours).                             *)
(***************************************************************************)

\* Bound on the triggerReflectionIfDue calls of one behaviour.
MaxTriggers == 3

\* Bound on the time that passes after construction.
MaxTriggerTime == 4

\* reflectionIntervalMs, 24 hours.
reflectionIntervalMs == 2

\* Date.now() at construction; it lies more than one interval after the
\* epoch, which lastReflectionTime starts at.
TriggerStart == 2

TriggerInit ==
    /\ triggerNow = TriggerStart
    /\ lastReflectionTime = 0
    /\ pendingReflections = 0
    /\ triggerCalls = <<>>

\* reflect() that leaves lastReflectionTime as it was.
ReflectionStampKept(last, at) == last

\* The first statement of reflect(): this.lastReflectionTime = Date.now().
ReflectionStamp(last, at) == at

\* triggerReflectionIfDue(): when the interval has passed since
\* lastReflectionTime, reflect() runs up to its await of queryLogs;
\* otherwise the call returns [] at once.
TriggerReflectionIfDue ==
    /\ Len(triggerCalls) < MaxTriggers
    /\ LET due == triggerNow - lastReflectionTime >= reflectionIntervalMs
       IN  /\ triggerCalls' = Append(triggerCalls,
                                     [at |-> triggerNow, reflected |-> due,
                                      pendingBefore |-> pendingReflections])
           /\ lastReflectionTime' =
                  IF due THEN ReflectionStamp(lastReflectionTime, triggerNow)
                  ELSE lastReflectionTime
           /\ pendingReflections' =
                  IF due THEN pendingReflections + 1 ELSE pendingReflections
    /\ UNCHANGED <<triggerNow, exceptTrigger>>

\* The queryLogs of a suspended reflect() completes and reflect() runs to
\* its end.
ReflectionQueryCompletes ==
    /\ pendingReflections > 0
    /\ pendingReflections' = pendingReflections - 1
    /\ UNCHANGED <<triggerNow, lastReflectionTime, triggerCalls, exceptTrigger>>

\* Half an interval passes.
TriggerTimePasses ==
    /\ triggerNow < TriggerStart + MaxTriggerTime
    /\ triggerNow' = triggerNow + 1
    /\ UNCHANGED <<lastReflectionTime, pendingReflections, triggerCalls, exceptTrigger>>

(***************************************************************************)
(* initCrossBrowserSync in the tabs of one browser.  Each tab has its own  *)
(* event bus and its own BroadcastChannel object on the channel            *)
(* 'adaptive_chat_ui'; a posted message is queued for every other tab      *)
(* whose channel is open.                                                  *)
(***************************************************************************)

\* Bound on the events published in the tabs in one behaviour.
MaxSyncEvents == 3

Tabs == {1, 2}

\* Events published on a tab's event bus; they carry no fromBroadcast
\* property (read as false).
SyncEvents ==
    [type : {"userMessage", "botMessage", "typing"}, text : {"hi"},
     fromBroadcast : {FALSE}]

SyncInit ==
    /\ syncTabs = {}
    /\ tabEvents = [tab \in Tabs |-> <<>>]
    /\ inbox = [tab \in Tabs |-> <<>>]

\* initCrossBrowserSync(db) in a tab: the channel is opened, onmessage is
\* set and the tab's event bus is subscribed to.
InitCrossBrowserSync(tab) ==
    /\ tab \notin syncTabs
    /\ syncTabs' = syncTabs \cup {tab}
    /\ UNCHANGED <<tabEvents, inbox, exceptSync>>

\* The message the subscriber of initCrossBrowserSync posts for an event.
Posted(event) == [event EXCEPT !.fromBroadcast = TRUE]

\* The inboxes after eventBus.next(event) in a tab: a tab with sync posts
\* user and bot messages on the channel, which queues them for the other
\* tabs with an open channel.
AfterNext(boxes, tab, event) ==
    IF tab \in syncTabs /\ event.type \in {"userMessage", "botMessage"}
    THEN [other \in Tabs |->
            IF other # tab /\ other \in syncTabs
            THEN Append(boxes[other], Posted(event))
            ELSE boxes[other]]
    ELSE boxes

\* eventBus.next(event) from the tab's own code (a dispatch).
SyncPublish(tab, event) ==
    /\ Len(tabEvents[1]) + Len(tabEvents[2]) < MaxSyncEvents
    /\ tabEvents' = [tabEvents EXCEPT ![tab] = Append(@, event)]
    /\ inbox' = AfterNext(inbox, tab, event)
    /\ UNCHANGED <<syncTabs, exceptSync>>

\* channel.onmessage in a tab for the oldest queued message: a message
\* marked fromBroadcast is dropped, any other is forwarded to the tab's
\* event bus.
SyncOnMessage(tab) ==
    /\ inbox[tab] # <<>>
    /\ LET data == Head(inbox[tab])
           rest == [inbox EXCEPT ![tab] = Tail(@)]
       IN  IF data.fromBroadcast
           THEN /\ inbox' = rest
                /\ UNCHANGED tabEvents
           ELSE /\ tabEvents' = [tabEvents EXCEPT ![tab] = Append(@, data)]
                /\ inbox' = AfterNext(rest, tab, data)
    /\ UNCHANGED <<syncTabs, exceptSync>>

\* Every component starts as its constructor leaves it.
Init == TrackerInit /\ ValueInit /\ WMInit /\ BusInit /\ EvolveInit /\ LoggerInit
        /\ EntityTrackerInit
        /\ IntentionRecognizerInit /\ PipelineInit /\ TensionInit
        /\ RecognizerInit /\ lastDetection = NoCall /\ lastRelevant = NoCall
        /\ values = CoreValueObjects /\ lastReflection = NoCall
        /\ TriggerInit /\ SyncInit

TrackerNext ==
    \/ \E m \in TrackerMessages : TrackMessage(m)
    \/ ResetPatterns

SpecTracker == Init /\ [][TrackerNext]_vars

\* The tracker with its relevance query.
TrackerQueryNext ==
    \/ TrackerNext
    \/ \E currentIntention \in {NoIntention, "greeting"}, recentEntities \in {<<>>, <<"ai">>} :
           GetRelevantPatternsCall(currentIntention, recentEntities)

SpecTrackerQuery == Init /\ [][TrackerQueryNext]_vars

\* The tracker started with a full history, the other components as constructed.
InitAtCap == TrackerAtCap /\ ValueInit /\ WMInit /\ BusInit /\ EvolveInit /\ LoggerInit
             /\ EntityTrackerInit /\ IntentionRecognizerInit /\ PipelineInit
             /\ TensionInit
             /\ RecognizerInit /\ lastDetection = NoCall /\ lastRelevant = NoCall
        /\ values = CoreValueObjects /\ lastReflection = NoCall
        /\ TriggerInit /\ SyncInit

SpecTrackerAtCap == InitAtCap /\ [][TrackerNext]_vars

ValueNext ==
    \/ \E pair \in OverridePairs, f \in PriorityFactors, k \in ContextKeys :
           SetCustomPriority(pair[1], pair[2], f, k)
    \/ \E v1 \in ArbitratedValueIds, v2 \in ArbitratedValueIds, ctx \in Contexts :
           ResolveConflictCall(v1, v2, ctx)

SpecValues == Init /\ [][ValueNext]_vars

\* getPriorityValue in a hierarchy with any custom priorities installed
\* before the call.
PriorityNext ==
    /\ lastPriority = NoCall
    /\ \/ \E pair \in OverridePairs, f \in PriorityFactors, k \in ContextKeys :
              SetCustomPriority(pair[1], pair[2], f, k)
       \/ \E list \in PriorityLists, ctx \in Contexts : GetPriorityValueCall(list, ctx)

SpecPriority == Init /\ [][PriorityNext]_vars

TriggerNext ==
    \/ TriggerReflectionIfDue
    \/ ReflectionQueryCompletes
    \/ TriggerTimePasses

SpecTrigger == Init /\ [][TriggerNext]_vars

SyncNext ==
    \/ \E tab \in Tabs : InitCrossBrowserSync(tab)
    \/ \E tab \in Tabs, event \in SyncEvents : SyncPublish(tab, event)
    \/ \E tab \in Tabs : SyncOnMessage(tab)

SpecSync == Init /\ [][SyncNext]_vars

TensionNext ==
    \E relevantValues \in RelevantValueLists, ctx \in Contexts :
        IdentifyValueTensionsCall(relevantValues, ctx)

SpecTensions == Init /\ [][TensionNext]_vars

RecognizerNext ==
    /\ lastRecognition = NoCall
    /\ \E t \in RecognizerTexts \cup {DrJohnSmithStreet} : RecognizeEntitiesCall(t)

SpecRecognizer == Init /\ [][RecognizerNext]_vars

DetectorNext ==
    /\ lastDetection = NoCall
    /\ \E t \in DetectorTexts : DetectIntentionsCall(t)

SpecDetector == Init /\ [][DetectorNext]_vars

RelevanceNext ==
    /\ lastRelevant = NoCall
    /\ \E ctx \in ScoringContexts, enh \in EnhancementTables :
          GetRelevantValuesCall(ctx, enh)

SpecRelevance == Init /\ [][RelevanceNext]_vars

\* One reflection over any window.
ReflectionNext ==
    \/ ReflectStart
    \/ lastReflection = NoCall /\ \E window \in LogWindows : ReflectOver(window)

SpecReflection == Init /\ [][ReflectionNext]_vars

\* Reflection after reflection, over windows of errors, slow responses and
\* feedback.
ReflectionHistoryNext ==
    \/ ReflectStart
    \/ \E window \in SeqsUpTo({log \in WindowLogs : log.key # "unknown"
                                                     /\ log.type # "user_message"},
                              MaxWindow) : ReflectOver(window)

SpecReflectionHistory == Init /\ [][ReflectionHistoryNext]_vars

\* The value-grounding capacity: its calls in any order.
CapacityNext ==
    \/ \E ctx \in Contexts : ProcessContextCall(ctx)
    \/ \E ctx \in Contexts :
          \E relevantIds \in
                {ValueIdsOf(GetRelevantValues(ctx, values, InstalledEnhancements)) \o <<>>} :
             IdentifyValueTensionsCall(relevantIds, ctx)
    \/ \E ctx \in Contexts : ResolveConflictCall("user_wellbeing", "human_agency", ctx)
    \/ \E priorityFactor \in PriorityFactors :
          SetCustomPriority("user_wellbeing", "human_agency", priorityFactor, DefaultKey)
    \/ \E insight \in Insights : EvolveValueGrounding(insight)

SpecCapacity == Init /\ [][CapacityNext]_vars

WMEntityNext ==
    \/ \E m \in EntityMessages : AddMessage(m, MaxMessages)
    \/ \E e \in {Alice, Health} : FocusOnEntity(e)
    \/ Tick

SpecWMEntities == Init /\ [][WMEntityNext]_vars

WMCapNext ==
    \/ \E m \in CapMessages : AddMessage(m, MaxCapMessages)
    \/ \E t \in CapTopics : FocusOnTopic(t)
    \/ WMReset

SpecWMCaps == Init /\ [][WMCapNext]_vars

\* Bound on the user messages added in the engagement specification.
MaxEngagementMessages == 11

\* addMessage with the enhanced messages of the pipeline texts: two of them
\* are shorter than 10 characters and lower the engagement level.
WMEngagementNext ==
    \E t \in PipelineTexts : AddMessage(EnhancedUserMessage(t), MaxEngagementMessages)

SpecWMEngagement == Init /\ [][WMEngagementNext]_vars

BusNext ==
    \/ \E c \in Conversations : InitConversationEngine(c)
    \/ \E c \in Conversations : Shutdown(c)
    \/ \E c \in Conversations, t \in UserTexts : DispatchUserMessage(c, t)
    \/ Deliver
    \/ NextReturn
    \/ ProcessRecognize
    \/ ProcessAddMessage
    \/ ProcessTrackMessage
    \/ ProcessEmit
    \/ ProcessReturn
    \/ EngineStore
    \/ EngineProcess
    \/ EngineTyping
    \/ EngineSetTimeout
    \/ \E i \in DOMAIN timers : TimerFires(i)
    \/ TimerTypingOff
    \/ TimerRespond
    \/ TimerDispatchBot
    \/ TimerStoreBot

SpecBus == Init /\ [][BusNext]_vars

EvolveNext ==
    \/ \E insight \in Insights : EvolveValueGrounding(insight)
    \/ \E insight \in Insights, random \in RandomParameters : EvolvePresence(insight, random)
    \/ \E c \in Contexts : AlignWithValues(c)
    \/ AlignStep
    \/ \E c \in Contexts : Engage(c)
    \/ EngageStep
    \/ ReflectStart
    \/ \E found \in {<<>>} \cup {<<i>> : i \in ReflectedInsights} : ReflectResume(found)

SpecEvolve == Init /\ [][EvolveNext]_vars

LoggerNext ==
    \/ \E type \in EventTypes, outcome \in StorageOutcomes : LogInteraction(type, outcome)
    \/ \E outcome \in StorageOutcomes : LoadRecentLogsSettles(outcome)
    \/ \E params \in QueryParams : QueryLogs(params)
    \/ \E outcome \in StorageOutcomes : QueryLogsResumes(outcome)

SpecLogger == Init /\ [][LoggerNext]_vars

EntityTrackerNext ==
    \/ \E extracted \in ExtractedEntities : ProcessMessage(extracted)
    \/ \E update \in EntityUpdates : UpdateEntity(update)
    \/ \E ticks \in {1, 3} : ClockAdvances(ticks)

SpecEntityTracker == Init /\ [][EntityTrackerNext]_vars

IntentionNext ==
    \/ \E message \in IntentionMessages : RecognizeIntentions(message)
    \/ \E k \in 1..Len(activeIntentions) : CompleteIntention(k)
    \/ CompletionTimerFires
    \/ IntentionReset
    \/ IntentionTickPasses
    \/ IntentionMsPasses

SpecIntention == Init /\ [][IntentionNext]_vars

PipelineNext ==
    \/ \E t \in PipelineTexts, hour \in PipelineHours : ProcessUserMessage(t, hour)
    \/ ProcessSystemMessage(WelcomeText)

SpecPipeline == Init /\ [][PipelineNext]_vars

\* The framework with reset(): user messages up to the bound, resets between
\* them.
FrameworkResetNext ==
    \/ /\ eventsTracked < MaxPipelineMessages
       /\ \E t \in PipelineTexts, hour \in PipelineHours : ProcessUserMessage(t, hour)
    \/ FrameworkReset

SpecFrameworkReset == Init /\ [][FrameworkResetNext]_vars

(***************************************************************************)
(* Claims about the pattern tracker                                        *)
(***************************************************************************)

TrackerIntentions == {"greeting", "question_factual", IntentionUnknown, "system_inform"}

PairKeys == {<<a, b>> : a \in TrackerIntentions, b \in TrackerIntentions}

\* Occurrences of the 2-step sequence key among the user messages of h.
PairCount(h, key) == CountIn(SeqKeys2(UserMessages(h)), key)

SeqRecords(pats, key) == {i \in DOMAIN pats : IsSequential(pats[i], key)}

SameSignature(p, q) ==
    /\ p.type = q.type
    /\ p.seqKey = q.seqKey
    /\ p.hour = q.hour
    /\ p.item = q.item
    /\ p.itemType = q.itemType

NoDuplicatePatterns ==
    \A i, j \in DOMAIN patterns :
        i # j => ~SameSignature(patterns[i], patterns[j])

\* A step in which a tracked user message completes one more occurrence of
\* the 2-step sequence key, bringing it to at least two occurrences.
CompletesOccurrence(key) ==
    /\ PairCount(interactionHistory', key) = PairCount(interactionHistory, key) + 1
    /\ PairCount(interactionHistory', key) >= 2

AccumulatesOnce(key) ==
    /\ Cardinality(SeqRecords(patterns', key)) = 1
    /\ LET new == patterns'[CHOOSE i \in SeqRecords(patterns', key) : TRUE]
       IN IF SeqRecords(patterns, key) = {}
          THEN new.occurrences = PairCount(interactionHistory', key)
          ELSE \A i \in SeqRecords(patterns, key) :
                   new.occurrences = patterns[i].occurrences + 1

\* C1: when trackMessage records a user message that completes a second (or
\* later) occurrence of a 2-step intention sequence a→b, exactly one
\* sequential pattern with that sequence key exists afterwards, created with
\* the observed count if it was absent and otherwise with its occurrences
\* increased by exactly 1; and no two pattern records ever share the same
\* type and signature.
C1_PatternAccumulation ==
    /\ []NoDuplicatePatterns
    /\ [][\A key \in PairKeys : CompletesOccurrence(key) => AccumulatesOnce(key)]_vars

\* A sequential 2-step pattern that was created and later updated by a user
\* message completing a further occurrence of its sequence.
C1_Witness ==
    \E i \in DOMAIN patterns :
        /\ patterns[i].type = "sequential"
        /\ Len(patterns[i].seqKey) = 2
        /\ patterns[i].occurrences >= 3
        /\ PairCount(interactionHistory, patterns[i].seqKey) >= 3
        /\ LET um == UserMessages(interactionHistory)
           IN /\ interactionHistory[Len(interactionHistory)].sender = "user"
              /\ <<um[Len(um) - 1].intention, um[Len(um)].intention>> = patterns[i].seqKey

\* C12: a trackMessage call discards no pattern: every pattern (type and
\* signature) stored before the call is still stored after it, also when the
\* call evicts an event from the full history.  Only resetPatterns removes.
C12_PatternsNeverDiscarded ==
    [][eventsTracked' = eventsTracked + 1 =>
          \A i \in DOMAIN patterns :
              \E j \in DOMAIN patterns' : SameSignature(patterns[i], patterns'[j])]_vars

\* The history is full, messages were tracked since, no user message left in
\* the history mentions the entity topic:ai, and its frequency pattern is
\* still stored.
C12_Witness ==
    /\ eventsTracked > 0
    /\ Len(interactionHistory) = maxHistorySize
    /\ CountIn(EntityMentions(UserMessages(interactionHistory)), <<"topic", "ai">>) = 0
    /\ \E i \in DOMAIN patterns : IsFrequency(patterns[i], <<"topic", "ai">>, "entity")

\* C14: after a trackMessage call, every hour of day in which at least 3
\* user messages of the history fall has a temporal pattern.
C14_BusyHourHasTemporalPattern ==
    [][eventsTracked' = eventsTracked + 1 =>
          \A hour \in 0..23 :
              HourCount(UserMessages(interactionHistory'), hour) >= 3 =>
                  \E i \in DOMAIN patterns' : IsTemporal(patterns'[i], hour)]_vars

\* C15: after a trackMessage call, every entity key mentioned at least 2
\* times across the user messages of the history has a frequency pattern.
C15_RepeatedEntityHasFrequencyPattern ==
    [][eventsTracked' = eventsTracked + 1 =>
          \A key \in {<<"topic", "ai">>} :
              CountIn(EntityMentions(UserMessages(interactionHistory')), key) >= 2 =>
                  \E i \in DOMAIN patterns' : IsFrequency(patterns'[i], key, "entity")]_vars

\* C16: every stored pattern has confidence min(0.5 + 0.1 * occurrences, 0.9)
\* for its current occurrences, and so never more than 0.9.
C16_ConfidenceFollowsOccurrences ==
    \A i \in DOMAIN patterns :
        /\ patterns[i].confidence = Min(5 + patterns[i].occurrences, 9)
        /\ patterns[i].confidence <= 9

\* After further messages, one pattern is far beyond the cap and another,
\* whose count went down to 3, is below it.
C16_Witness ==
    /\ eventsTracked > 0
    /\ \E i \in DOMAIN patterns :
           patterns[i].occurrences > 4 /\ patterns[i].confidence = 9
    /\ \E i \in DOMAIN patterns :
           /\ IsFrequency(patterns[i], <<"greeting">>, "intention")
           /\ patterns[i].occurrences = 3
           /\ patterns[i].confidence = 8

\* C17: every pattern getRelevantPatterns returns is a sequential pattern
\* whose first step is the supplied intention, or an entity frequency
\* pattern whose entity is among the supplied entities, or has confidence
\* strictly above 0.85; also when neither argument is supplied.
C17_RelevantPatternsOnly ==
    relevantQuery.called =>
        \A k \in DOMAIN relevantQuery.result :
            LET p == relevantQuery.result[k] IN
            \/ /\ p.type = "sequential"
               /\ p.seqKey[1] = relevantQuery.currentIntention
            \/ /\ p.type = "frequency"
               /\ p.itemType = "entity"
               /\ \E j \in DOMAIN relevantQuery.recentEntities :
                      relevantQuery.recentEntities[j] = p.item[2]
            \/ p.confidence * 10 > 85

\* C22: the interaction history never holds more than maxHistorySize (100)
\* events, and an event tracked when the history is full evicts the oldest
\* one: the rest keeps its order and the new event is the last.
C22_HistoryBoundedFifo ==
    [][/\ Len(interactionHistory) <= maxHistorySize
       /\ Len(interactionHistory') <= maxHistorySize
       /\ (eventsTracked' = eventsTracked + 1 /\ Len(interactionHistory) = maxHistorySize) =>
             /\ Len(interactionHistory') = maxHistorySize
             /\ SubSeq(interactionHistory', 1, maxHistorySize - 1) = Tail(interactionHistory)
             /\ interactionHistory'[maxHistorySize].type = "message"]_vars

\* Five events were tracked into a full history: the five user messages that
\* were its oldest events are gone and a tracked user message is its last.
C22_Witness ==
    /\ eventsTracked = MaxEvents
    /\ Len(interactionHistory) = maxHistorySize
    /\ interactionHistory[1].sender = "system"
    /\ interactionHistory[maxHistorySize].sender = "user"
\* How often the history h holds the sequence or the hour bucket of the
\* sequential or temporal pattern p.
PatternCount(h, p) ==
    LET um == UserMessages(h)
    IN  IF p.type = "sequential" THEN CountIn(SeqKeys2(um) \o SeqKeys3(um), p.seqKey)
        ELSE HourCount(um, p.hour)

\* C33: the occurrences of a sequential or temporal pattern change only in
\* a trackMessage that adds an occurrence of the pattern's sequence or hour
\* bucket to the history; every other trackMessage leaves them unchanged.
C33_OccurrencesChangeOnlyOnNewOccurrence ==
    [][\A i \in DOMAIN patterns :
          (/\ i \in DOMAIN patterns'
           /\ patterns[i].type \in {"sequential", "temporal"}
           /\ patterns'[i].occurrences # patterns[i].occurrences)
          => PatternCount(interactionHistory', patterns[i])
                > PatternCount(interactionHistory, patterns[i])]_vars

\* C35: a trackMessage never lowers the occurrences of a pattern it finds in
\* the list, also when it evicts an old event from the full history.
C35_OccurrencesNeverDecrease ==
    [][eventsTracked' = eventsTracked + 1 =>
          \A i \in DOMAIN patterns :
             /\ i \in DOMAIN patterns'
             /\ patterns'[i].occurrences >= patterns[i].occurrences]_vars


(***************************************************************************)
(* Claims about the value hierarchy                                        *)
(***************************************************************************)

\* C2: for any two values A and B, any context and any custom-priority
\* table, resolveConflict(A, B, ctx) and resolveConflict(B, A, ctx) return
\* the same winning value.
C2_ResolveConflictSymmetric ==
    \A a \in ArbitratedValueIds, b \in ArbitratedValueIds, ctx \in Contexts :
        ResolveConflict(customPriorities, a, b, ctx)
            = ResolveConflict(customPriorities, b, a, ctx)


\* The values favoured by the overrides installed with setCustomPriority(a, b, ...)
\* that apply in ctx: those whose context pattern matches and the default one.
FavouredByInstalled(a, b, ctx) ==
    LET table == customPriorities[<<a, b>>]
    IN  {IF table[i].factor > 0 THEN a ELSE b :
            i \in {j \in DOMAIN table :
                      \/ table[j].key = DefaultKey
                      \/ MatchesContextPattern(ctx, ContextPatterns[table[j].key])}}

HigherApplicability(a, b, ctx) ==
    IF ValueApplicability(a, ctx) > ValueApplicability(b, ctx) THEN a ELSE b

HigherImportance(a, b) ==
    IF CoreValues[a].importance > CoreValues[b].importance THEN a ELSE b

\* Applicabilities (in thousandths) that differ by more than 0.3.
DifferByMoreThan300(x, y) == x - y > 300 \/ y - x > 300

\* C19: when no override matches, resolveConflict returns the value with the
\* higher applicability if the applicabilities differ by more than 0.3, and
\* otherwise the value with the higher importance.
C19_ApplicabilityThenImportance ==
    \A a \in ArbitratedValueIds, b \in ArbitratedValueIds, ctx \in Contexts :
        (a # b /\ FavouredByInstalled(a, b, ctx) = {}) =>
            ResolveConflict(customPriorities, a, b, ctx) =
                IF DifferByMoreThan300(ValueApplicability(a, ctx), ValueApplicability(b, ctx))
                THEN HigherApplicability(a, b, ctx)
                ELSE HigherImportance(a, b)

\* A resolveConflict call on a pair without overrides returned the value of
\* lower importance, its applicability being more than 0.3 higher.
C19_Witness ==
    /\ lastConflict # NoConflict
    /\ lastConflict.value1 # lastConflict.value2
    /\ customPriorities[<<lastConflict.value1, lastConflict.value2>>] = <<>>
    /\ lastConflict.winner #
           HigherImportance(lastConflict.value1, lastConflict.value2)

InList(list, x) == \E i \in DOMAIN list : list[i] = x

\* C20: whenever two of the relevant values both have an applicability above
\* 0.7 in the context, identifyValueTensions reports the pair as an
\* application tension.
C20_ApplicationTensionReported ==
    lastTensions # NoTensionsCall =>
        \A a \in CoreValueIds, b \in CoreValueIds :
            (/\ a # b
             /\ InList(lastTensions.relevantValues, a)
             /\ InList(lastTensions.relevantValues, b)
             /\ ValueApplicability(a, lastTensions.context) > 700
             /\ ValueApplicability(b, lastTensions.context) > 700) =>
                \E i \in DOMAIN lastTensions.tensions :
                    /\ {lastTensions.tensions[i].valueId1,
                        lastTensions.tensions[i].valueId2} = {a, b}
                    /\ lastTensions.tensions[i].tensionType = "application"

\* A call reported an application tension between two values of applicability
\* above 0.7, next to pairs that got a priority tension or none.
C20_Witness ==
    /\ lastTensions # NoTensionsCall
    /\ \E i \in DOMAIN lastTensions.tensions :
          /\ lastTensions.tensions[i].tensionType = "application"
          /\ ValueApplicability(lastTensions.tensions[i].valueId1, lastTensions.context) > 700
          /\ ValueApplicability(lastTensions.tensions[i].valueId2, lastTensions.context) > 700
    /\ \E i \in DOMAIN lastTensions.tensions :
          lastTensions.tensions[i].tensionType = "priority"
    /\ Len(lastTensions.tensions) * 2 <
          Len(lastTensions.relevantValues) * (Len(lastTensions.relevantValues) - 1)
\* The orderings of a list.
Orderings(list) ==
    {perm \in [DOMAIN list -> {list[i] : i \in DOMAIN list}] :
        \A i, j \in DOMAIN list : i # j => perm[i] # perm[j]}

\* C36: getPriorityValue returns the same winning value for every ordering
\* of the same non-empty list of values in the same context.
C36_PriorityValueOrderIndependent ==
    lastPriority.called =>
        \A perm \in Orderings(lastPriority.values) :
            GetPriorityValue(customPriorities, perm, lastPriority.context)
                = lastPriority.winner


(***************************************************************************)
(* Claims about the working memory                                         *)
(***************************************************************************)

\* C3: after every WorkingMemory operation recentMessages holds at most 10
\* messages, recentIntentions at most 5 intentions and
\* conversationState.activeTopics at most 5 topics.
C3_CollectionsWithinCaps ==
    /\ Len(recentMessages) <= maxRecentMessages
    /\ Len(currentFocus.recentIntentions) <= 5
    /\ Len(conversationState.activeTopics) <= 5

MentionsOf(m, key) == {i \in DOMAIN m.entities : WMEntityKey(m.entities[i]) = key}

AddMessageStep ==
    /\ wmLastOp'.op = "addMessage"
    /\ conversationState'.messageCount = conversationState.messageCount + 1

\* C8: an addMessage that carries one further mention of an entity already
\* in the entity table increases that entity's mentionCount by exactly 1 and
\* sets its confidence to the maximum of the old and the new confidence.
C8_ReMentionCountsOnce ==
    [][AddMessageStep =>
        \A i \in DOMAIN entityMap :
            LET old == entityMap[i]
                m == wmLastOp'.message
                mentions == MentionsOf(m, old.key)
            IN Cardinality(mentions) = 1 =>
                 \E j \in DOMAIN entityMap' :
                    /\ entityMap'[j].key = old.key
                    /\ entityMap'[j].mentionCount = old.mentionCount + 1
                    /\ \A k \in mentions :
                          entityMap'[j].confidence =
                              Max(old.confidence, m.entities[k].confidence)
                    /\ entityMap'[j].confidence >= old.confidence]_vars

\* A re-mention with the lower confidence 6 has been merged into the entity
\* first seen with confidence 8.
C8_Witness ==
    /\ wmLastOp.op = "addMessage"
    /\ \E k \in DOMAIN wmLastOp.message.entities : wmLastOp.message.entities[k] = AliceLower
    /\ \E i \in DOMAIN entityMap :
          /\ entityMap[i].key = <<"person", "alice">>
          /\ entityMap[i].mentionCount = 3
          /\ entityMap[i].confidence = 8

\* C9: after any addMessage completes, neither the entity table nor
\* currentFocus.activeEntities holds an entity whose last mention is more
\* than 30 minutes old.
C9_NoExpiredEntityAfterAddMessage ==
    wmLastOp.op = "addMessage" =>
        /\ \A i \in DOMAIN entityMap : ~Expired(entityMap[i], now)
        /\ \A i \in DOMAIN currentFocus.activeEntities :
              ~Expired(currentFocus.activeEntities[i], now)

\* C39: addMessage with a user message whose engagement adjustment is zero
\* or negative never raises userEngagementLevel; a level of 0 stays at 0.
C39_EngagementNotRaisedByShortMessage ==
    [][(/\ conversationState'.messageCount = conversationState.messageCount + 1
        /\ wmLastOp'.op = "addMessage"
        /\ wmLastOp'.message.sender = "user"
        /\ EngagementAdjustment(wmLastOp'.message) <= 0)
       => conversationState'.userEngagementLevel
             <= conversationState.userEngagementLevel]_vars


(***************************************************************************)
(* Claims about the event bus wiring                                       *)
(***************************************************************************)

\* The processUserMessage calls of conversation c's framework in progress.
CyclesInProgress(c) ==
    {i \in DOMAIN stack :
        stack[i].kind = "process" /\ stack[i].sender = "user" /\ stack[i].conv = c}

UserMessagesIn(messages) == SelectSeq(messages, LAMBDA x : x[1] = "user")

\* C4: the message-processing cycles of one conversation never interleave:
\* a framework has at most one processUserMessage in progress, and when a
\* cycle begins every earlier cycle has completed all its updates (each
\* user message in the working memory has been tracked).
C4_CyclesRunToCompletion ==
    \A c \in Conversations :
        /\ Cardinality(CyclesInProgress(c)) <= 1
        /\ (Running("process", "recognize") /\ Top.sender = "user" /\ Top.conv = c)
              => Len(UserMessagesIn(frameworks[c].messages)) = Len(frameworks[c].tracked)

\* A framework that has completed a cycle begins its next one.
C4_Witness ==
    /\ Running("process", "recognize")
    /\ Top.sender = "user"
    /\ Len(frameworks[Top.conv].tracked) >= 2

\* C5: a task started for one conversation never changes the framework
\* state (working memory, pattern tracker) of another conversation.
C5_ConversationsIndependent ==
    [][\A c \in Conversations :
          (frameworks[c].constructed /\ frameworks'[c] # frameworks[c])
              => taskOrigin' = c]_vars

\* C30: each userMessage event published on the bus is run through the
\* understanding pipeline exactly once: no framework's working memory counts
\* more user messages, and no pattern tracker holds more events, than user
\* messages were dispatched.
C30_EachUserMessageProcessedOnce ==
    \A c \in Conversations :
        /\ Len(UserMessagesIn(frameworks[c].messages)) <= dispatched
        /\ Len(frameworks[c].tracked) <= dispatched

\* C31: bot replies are dispatched in the order of the user messages that
\* triggered them: the timer callback that runs is the one of the oldest
\* pending user message of its conversation, also when a later message
\* arrived before the thinking delay of an earlier one has elapsed.
C31_RepliesInMessageOrder ==
    [][Len(timers') < Len(timers) =>
          \E i \in DOMAIN timers :
             /\ timers' = RemoveAt(timers, i)
             /\ \A j \in 1..(i - 1) : timers[j].conv # timers[i].conv]_vars

MessageEventTypes == {"userMessage", "botMessage"}

SameEvent(e1, e2) == e1.type = e2.type /\ e1.text = e2.text

\* C40: with cross-browser sync initialised in both tabs, a userMessage or
\* botMessage event published on one tab's event bus is delivered to the
\* other tab's event bus: publishing it queues a channel message for the
\* other tab, and a tab that handles a queued message of these types emits
\* the event on its own event bus.
C40_MessageEventsReachOtherTab ==
    [][\A tab \in Tabs : \A other \in Tabs \ {tab} :
          /\ (/\ syncTabs = Tabs
              /\ Len(tabEvents'[tab]) = Len(tabEvents[tab]) + 1
              /\ tabEvents'[tab][Len(tabEvents'[tab])].type \in MessageEventTypes
              /\ inbox'[tab] = inbox[tab])
             => /\ Len(inbox'[other]) = Len(inbox[other]) + 1
                /\ SameEvent(inbox'[other][Len(inbox'[other])],
                             tabEvents'[tab][Len(tabEvents'[tab])])
          /\ (/\ inbox[other] # <<>>
              /\ inbox'[other] = Tail(inbox[other])
              /\ Head(inbox[other]).type \in MessageEventTypes)
             => /\ Len(tabEvents'[other]) = Len(tabEvents[other]) + 1
                /\ SameEvent(tabEvents'[other][Len(tabEvents'[other])],
                             Head(inbox[other]))]_vars


(***************************************************************************)
(* Claims about reflection and evolve                                      *)
(***************************************************************************)

C7_StorageFailureNeverFailsCaller ==
    /\ (lastLog.op = "logInteraction" /\ lastLog.storage # "resolves") =>
          /\ lastLog.completed
          /\ \E i \in DOMAIN logs : logs[i].id = lastLog.entry
    /\ (lastLog.op = "queryLogs" /\ lastLog.storage \in {"rejects", "throws"}) =>
          /\ lastLog.completed
          /\ lastLog.result = lastLog.matches

\* C32: an entry recorded through logInteraction stays in the in-memory log:
\* a step removes an entry only as the oldest of a full log (FIFO eviction
\* beyond maxInMemoryLogs); in particular the entries logged before the
\* constructor's loadRecentLogs settles are still there after it settles.
C32_LoggedEntriesKept ==
    [][\A i \in DOMAIN logs :
          \/ \E j \in DOMAIN logs' : logs'[j] = logs[i]
          \/ i = 1 /\ Len(logs) >= maxInMemoryLogs]_vars


(***************************************************************************)
(* Claims about the entity tracker                                         *)
(***************************************************************************)

\* C10: the salience of a tracked entity that receives no mention never
\* increases from one observation to the next, whatever salience it started
\* with.
C10_SalienceNeverIncreases ==
    [][\A id \in EntityIds :
          (/\ trackedEntities[id].present
           /\ trackedEntities'[id].present
           /\ id \notin mentioned')
              => trackedEntities'[id].salience <= trackedEntities[id].salience]_vars

(***************************************************************************)
(* Claims about the intention recognizer                                   *)
(***************************************************************************)

\* C11: once more than 10 minutes have passed since an intention was last
\* detected, getActiveIntentions / getIntentionsForContext does not report it.
C11_StaleIntentionNotReported ==
    \A k \in 1..Len(GetIntentionsForContext) :
        NowMs(intentionNow) - GetIntentionsForContext[k].lastDetected <= PurgeAfterMs

(***************************************************************************)
(* Claims about the understanding pipeline                                 *)
(***************************************************************************)

ThreeHelpRequests == <<CanYouHelpMe.text, CanYouHelpMe.text, CanYouHelpMe.text>>

RequestActionPatterns ==
    {i \in DOMAIN patterns : IsFrequency(patterns[i], <<"request_action">>, "intention")}

C29_ResetEmptiesContext ==
    wmLastOp.op = "reset" =>
        /\ currentFocus.activeTopics = <<>>
        /\ conversationState.activeTopics = <<>>
        /\ currentFocus.activeEntities = <<>>
        /\ entityMap = <<>>
        /\ currentFocus.recentIntentions = <<>>
        /\ recentMessages = <<>>
        /\ conversationState.messageCount = 0

\* reset() ran on a memory that held messages and entities.
C29_Witness ==
    /\ wmLastOp.op = "reset"
    /\ wmLastOp.messagesBefore = MaxMessages
    /\ wmLastOp.entitiesBefore >= 2
    /\ entityMap = <<>>
    /\ conversationState.messageCount = 0
\* C34: after the framework's reset() pattern tracking starts afresh: the
\* first user message processed right after a reset leaves the pattern list
\* empty, whatever was tracked before the reset.
C34_SingleMessageAfterResetNoPattern ==
    [][(/\ wmLastOp.op = "reset"
        /\ patterns = <<>>
        /\ eventsTracked' = eventsTracked + 1)
       => patterns' = <<>>]_vars


(***************************************************************************)
(* Claims about the entity recognizer                                      *)
(***************************************************************************)

SpansOverlap(e1, e2) == e1.startIndex < e2.endIndex /\ e2.startIndex < e1.endIndex

\* C23: every entity recognizeEntities returns has 0 <= startIndex <
\* endIndex <= length of the text, and no two returned entities overlap.
C23_SpansValidAndDisjoint ==
    lastRecognition # NoCall =>
        LET entities == lastRecognition.entities
        IN  /\ \A i \in DOMAIN entities :
                  /\ 0 <= entities[i].startIndex
                  /\ entities[i].startIndex < entities[i].endIndex
                  /\ entities[i].endIndex <= lastRecognition.text.length
            /\ \A i \in DOMAIN entities, j \in DOMAIN entities :
                  i # j => ~SpansOverlap(entities[i], entities[j])

\* A call whose candidate entities overlapped, in an order that is not the
\* order of their start, and that returned two entities.
C23_Witness ==
    /\ lastRecognition # NoCall
    /\ Len(lastRecognition.entities) = 2
    /\ LET candidates == CandidateEntities(lastRecognition.text)
       IN  /\ Len(candidates) > 2
           /\ candidates # SortByStartIndex(candidates)
           /\ \E i \in DOMAIN candidates, j \in DOMAIN candidates :
                 i # j /\ SpansOverlap(candidates[i], candidates[j])

\* C38: recognizeEntities discards a candidate entity only if some entity
\* of the returned list overlaps it and has a higher confidence, or the same
\* confidence and a span at least as long.
C38_DiscardedOnlyForBetterOverlap ==
    lastRecognition # NoCall =>
        LET entities == lastRecognition.entities
            candidates == CandidateEntities(lastRecognition.text)
        IN  \A c \in DOMAIN candidates :
                (\A r \in DOMAIN entities : entities[r] # candidates[c]) =>
                    \E r \in DOMAIN entities :
                        /\ SpansOverlap(entities[r], candidates[c])
                        /\ \/ entities[r].confidence > candidates[c].confidence
                           \/ /\ entities[r].confidence = candidates[c].confidence
                              /\ entities[r].endIndex - entities[r].startIndex >=
                                    candidates[c].endIndex - candidates[c].startIndex


(***************************************************************************)
(* Claims about the intention detector                                     *)
(***************************************************************************)

NothingMatches(t) ==
    /\ t.patternMatches = <<>>
    /\ \A i \in DOMAIN t.keywordMatches : t.keywordMatches[i].matches = 0
    /\ ~t.endsWithQuestionMark

\* C24: detectIntentions never returns an empty list; when no pattern, no
\* keyword and no trailing question mark matches, it returns exactly one
\* intention, of type unknown.
C24_DetectionNeverEmpty ==
    lastDetection # NoCall =>
        /\ lastDetection.intentions # <<>>
        /\ NothingMatches(lastDetection.text) =>
              /\ Len(lastDetection.intentions) = 1
              /\ lastDetection.intentions[1].type = IntentionUnknown

\* detectIntentions was called on a text in which nothing matches.
C24_Witness ==
    /\ lastDetection # NoCall
    /\ NothingMatches(lastDetection.text)
    /\ lastDetection.intentions = <<[type |-> IntentionUnknown, confidence |-> 100]>>

ActionTypes == {"command", "request_action"}

HasAction(intentions) ==
    \E i \in DOMAIN intentions :
        intentions[i].type \in ActionTypes /\ intentions[i].confidence > 70

HasQuestion(intentions) ==
    \E i \in DOMAIN intentions :
        intentions[i].type \in QuestionTypes /\ intentions[i].confidence > 80

\* C25: the primary intention is one of the detected intentions; it is a
\* command or request-action if one was detected with confidence above 0.7,
\* otherwise a question type if one was detected with confidence above 0.8,
\* otherwise an intention of the highest confidence.
C25_PrimaryElection ==
    lastDetection # NoCall =>
        LET intentions == lastDetection.intentions
            primary == lastDetection.primary
        IN  /\ \E i \in DOMAIN intentions : intentions[i] = primary
            /\ IF HasAction(intentions) THEN primary.type \in ActionTypes
               ELSE IF HasQuestion(intentions) THEN primary.type \in QuestionTypes
               ELSE \A i \in DOMAIN intentions :
                        intentions[i].confidence <= primary.confidence

\* A command or request-action displaced a question of confidence above 0.8
\* that was first in the list.
C25_Witness ==
    /\ lastDetection # NoCall
    /\ lastDetection.primary # lastDetection.intentions[1]
    /\ lastDetection.primary.type \in ActionTypes
    /\ lastDetection.intentions[1].type \in QuestionTypes
    /\ lastDetection.intentions[1].confidence > 80


(***************************************************************************)
(* Claims about value relevance and the core value set                     *)
(***************************************************************************)

UserWellbeing == CHOOSE i \in DOMAIN CoreValueObjects : CoreValueObjects[i].id = "user_wellbeing"

\* C28: for a context whose recentSentiment is -0.6, getRelevantValues over
\* the core values includes user_wellbeing: its emotional_support
\* manifestation matches at 0.9 and its applicability score is above 0.3.
C28_NegativeSentimentSurfacesWellbeing ==
    (lastRelevant # NoCall /\ lastRelevant.context.conversationState.recentSentiment = 0 - 60) =>
        /\ InList(ValueIdsOf(lastRelevant.relevantValues), "user_wellbeing")
        /\ ScoreManifestationMatch("emotional_support", lastRelevant.context) = 900
        /\ ScoreManifestations(values[UserWellbeing], lastRelevant.context) = 900
        /\ ApplicabilityScore(values[UserWellbeing], lastRelevant.context,
                              lastRelevant.enhancements) > 300

\* getRelevantValues was called for recentSentiment -0.6 on an instance whose
\* enhancements lower user_wellbeing as far as they can.
C28_Witness ==
    /\ lastRelevant # NoCall
    /\ lastRelevant.context.conversationState.recentSentiment = 0 - 60
    /\ ApplyEnhancements(lastRelevant.enhancements["user_wellbeing"],
                         lastRelevant.context) = 0 - 500
    /\ InList(ValueIdsOf(lastRelevant.relevantValues), "user_wellbeing")

\* C21: no sequence of processContext, identifyValueTensions,
\* resolveConflict, setCustomPriority or evolve calls changes a core value's
\* id, importance or manifestations, and no computed applicability or
\* priority is stored on a value object: the capacity's values stay the core
\* values, with exactly these three fields.
C21_CoreValuesImmutable ==
    /\ values = CoreValueObjects
    /\ \A i \in DOMAIN values : DOMAIN values[i] = {"id", "importance", "manifestations"}
    /\ lastRelevant # NoCall =>
          \A i \in DOMAIN lastRelevant.relevantValues :
             \E j \in DOMAIN CoreValueObjects :
                lastRelevant.relevantValues[i] = CoreValueObjects[j]

\* Overrides and an enhancement were installed by evolve and
\* setCustomPriority, and processContext ran and resolved a tension.
C21_Witness ==
    /\ values = CoreValueObjects
    /\ OverrideCount(customPriorities) = MaxOverrides
    /\ customPriorities[<<"truthfulness", "human_agency">>] # <<>>
    /\ enhancements["truthfulness"] # <<>>
    /\ lastRelevant # NoCall /\ Len(lastRelevant.relevantValues) >= 2
    /\ lastTensions.called /\ lastTensions.tensions # <<>>
    /\ lastConflict.winner = "user_wellbeing"


(***************************************************************************)
(* Claims about the reflection engine                                      *)
(***************************************************************************)

IsPrefix(s, t) == Len(s) <= Len(t) /\ SubSeq(t, 1, Len(s)) = s

\* C26: every insight a reflect() call returns is appended to the insight
\* history, and the history only grows: a reflection leaves the insights
\* already in it in place and in order, followed by the ones it returns.
C26_InsightHistoryAppendOnly ==
    [][/\ IsPrefix(insightHistory, insightHistory')
       /\ (reflectPc = "awaitLogs" /\ reflectPc' = "idle") =>
             insightHistory' = insightHistory \o lastReflection'.newInsights
       /\ ~(reflectPc = "awaitLogs" /\ reflectPc' = "idle") =>
             insightHistory' = insightHistory]_vars

\* A second reflection returned insights and the one of the first is still
\* the first of the history.
C26_Witness ==
    /\ lastReflection # NoCall
    /\ lastReflection.newInsights # <<>>
    /\ Len(insightHistory) > Len(lastReflection.newInsights)
    /\ insightHistory[1] # lastReflection.newInsights[1]

ErrorWarning(errorType) ==
    [insightType |-> "warning", targetCapacity |-> "all",
     description |-> "recurring errors", subject |-> errorType]

PreviousReflectionStart(calls) ==
    LET started == {i \in DOMAIN calls : calls[i].reflected}
    IN  IF started = {} THEN 0 - 1
        ELSE calls[CHOOSE i \in started : \A j \in started : j <= i].at

\* C37: triggerReflectionIfDue runs at most one reflection per interval: a
\* call made before reflectionIntervalMs has passed since the previous
\* reflection started starts no reflection (no log query, lastReflectionTime
\* untouched), also while the previous reflection's log query is pending.
C37_OneReflectionPerInterval ==
    [][(/\ Len(triggerCalls') = Len(triggerCalls) + 1
        /\ PreviousReflectionStart(triggerCalls) >= 0
        /\ triggerNow - PreviousReflectionStart(triggerCalls) < reflectionIntervalMs)
       => /\ ~triggerCalls'[Len(triggerCalls')].reflected
          /\ pendingReflections' = pendingReflections
          /\ lastReflectionTime' = lastReflectionTime]_vars

\* A call was refused while the previous reflection's query was pending,
\* and a later call, made after the interval, started the next reflection
\* while the first was still pending.
C37_Witness ==
    \E i, j \in DOMAIN triggerCalls :
        /\ i < j
        /\ ~triggerCalls[i].reflected
        /\ triggerCalls[i].pendingBefore = 1
        /\ triggerCalls[j].reflected
        /\ triggerCalls[j].pendingBefore = 1

====
